---- MODULE Spec2Model ----
(***************************************************************************)
(* Identy: hardware fingerprint (SHA-256 over CPU and SMBIOS fields) and   *)
(* the SMBIOS table walk it depends on.                                    *)
(***************************************************************************)
EXTENDS Integers, Sequences, FiniteSets, TLC

VARIABLES
  \* ---- one Sha256 object and the calls made on it
  ctx,            \* the object: m_state, m_block, m_block_len, m_total_len, m_finalized
  calls,          \* history: the calls made on the object so far, [op, len], in order
  fed,            \* history: the bytes passed to update since construction or the last reset
  digest,         \* the Hash256 returned by the last finalize, <<>> before the first
  assert_failed,  \* the last call evaluated its assert with a false condition
  build,          \* "any" until a failed assert was survived, then "NDEBUG"
  aborted,        \* a failed assert ended the process (build without NDEBUG)
  padded,         \* history: what the last finalize did to m_block: [blocks, writes]
  \* ---- one SMBIOS table and one function walking it
  fn,             \* "snap_motherboard" | "get_smbios_manufacturer" | "none"
  avail,          \* get_smbios_impl() returned a table (not nullptr)
  buf,            \* the table bytes: SMBIOS_table_data[0 .. length) / raw_tables_data
  tail,           \* the readable bytes that follow the table in memory; none beyond
  recs,           \* history: the records a well-formed table was encoded from
  wellformed,     \* history: buf is exactly the encoding of recs
  pc,             \* where the function is
  off,            \* smbios_begin / raw_smbios, as an offset into the table
  uuid_buffer,    \* what get_smbios_uuid returned
  mb_uuid,        \* motherboard.smbios.uuid
  manufacturer,   \* the string_view manufacturer, then the string returned
  max_read,       \* the highest table offset read so far, -1 before the first read
  passes,         \* history: the passes of the while loop made so far
  \* ---- two hardware snapshots and the fingerprint function applied to them
  platform,       \* the build: "IDENTY_WIN32" | "IDENTY_LINUX" ("none" when unused)
  crypt_fails,    \* the CryptoAPI call that fails on this machine, or "none"
  fp_fn,          \* "hash" (Motherboard) | "hash_ex" (MotherboardEx) | "none"
  boards,         \* the two snapshots, <<b1, b2>>
  fp,             \* the results so far: fp[i] = [bytes, digest] for boards[i]
  \* ---- the VM heuristic
  vm_fn,          \* "calculate_confidence" | "DefaultHeuristic" | "DefaultHeuristicEx" | "none"
  snapshot,       \* the snapshot analysed and what the platform reports with it
  verdict,        \* HeuristicVerdict: detections, confidence
  vm_pc,          \* "call" before the function ran, "return" after ("idle" when unused)
  adapters_seen,  \* history: what list_network_adapters reported to the call
  earlier,        \* the calls made before on this snapshot: [fn, seen, verdict]
  \* ---- CResourceHandle objects and the allocator's buffers
  handles,        \* handles[h] = [life, m_pointer, m_size, m_was_moved]
  heap,           \* heap[b]: how often buffer b was passed to the deallocator
  \* ---- get_smbios_uuid_sysfs
  uuid_str,       \* the text handed to the function
  fallback_uid,   \* the std::optional returned: [has_value, uuid]
  sysfs_pc        \* "call" before the function ran, "return" after ("idle" when unused)

shaVars == <<ctx, calls, fed, digest, assert_failed, build, aborted, padded>>

smbiosVars ==
  <<fn, avail, buf, tail, recs, wellformed, pc, off, uuid_buffer, mb_uuid,
    manufacturer, max_read, passes>>

fpVars == <<platform, crypt_fails, fp_fn, boards, fp>>

vmVars == <<vm_fn, snapshot, verdict, vm_pc, adapters_seen, earlier>>

rhVars == <<handles, heap>>

sysfsVars == <<uuid_str, fallback_uid, sysfs_pc>>

vars ==
  <<ctx, calls, fed, digest, assert_failed, build, aborted, padded,
    fn, avail, buf, tail, recs, wellformed, pc, off, uuid_buffer, mb_uuid,
    manufacturer, max_read, passes,
    platform, crypt_fails, fp_fn, boards, fp,
    vm_fn, snapshot, verdict, vm_pc, adapters_seen, earlier,
    handles, heap, uuid_str, fallback_uid, sysfs_pc>>

(***************************************************************************)
(* Sha256 (Identy_sha256.hxx / Identy_sha256.cxx)                          *)
(*                                                                         *)
(* A std::uint32_t is the pair <<hi, lo>> of its two 16-bit halves, so     *)
(* that every intermediate value stays inside the model checker's integer  *)
(* range and every sum is reduced modulo 2^32 exactly as the unsigned      *)
(* arithmetic of the source does.  Arrays indexed from 0 in the source     *)
(* (m_state, m_block, w) are functions on 0..n-1; a span of bytes handed   *)
(* to update is a sequence.                                                *)
(***************************************************************************)
block_size == 64

digest_size == 32

Half == 2 ^ 16

Bit4(op(_, _), a, b) ==
  op(a % 2, b % 2) + 2 * op((a \div 2) % 2, (b \div 2) % 2)
    + 4 * op((a \div 4) % 2, (b \div 4) % 2) + 8 * op(a \div 8, b \div 8)

XorBit(x, y) == (x + y) % 2

AndBit(x, y) == x * y

Xor4 == [a \in 0..15 |-> [b \in 0..15 |-> Bit4(XorBit, a, b)]]

And4 == [a \in 0..15 |-> [b \in 0..15 |-> Bit4(AndBit, a, b)]]

Xor8 ==
  [a \in 0..255 |-> [b \in 0..255 |->
    16 * Xor4[a \div 16][b \div 16] + Xor4[a % 16][b % 16]]]

And8 ==
  [a \in 0..255 |-> [b \in 0..255 |->
    16 * And4[a \div 16][b \div 16] + And4[a % 16][b % 16]]]

Xor16(a, b) == 256 * Xor8[a \div 256][b \div 256] + Xor8[a % 256][b % 256]

And16(a, b) == 256 * And8[a \div 256][b \div 256] + And8[a % 256][b % 256]

\* x ^ y on std::uint32_t
Xor32(x, y) == <<Xor16(x[1], y[1]), Xor16(x[2], y[2])>>

\* x & y on std::uint32_t
And32(x, y) == <<And16(x[1], y[1]), And16(x[2], y[2])>>

\* x | y on std::uint32_t
Or32(x, y) ==
  <<x[1] + y[1] - And16(x[1], y[1]), x[2] + y[2] - And16(x[2], y[2])>>

\* ~x on std::uint32_t
Not32(x) == <<Half - 1 - x[1], Half - 1 - x[2]>>

\* x + y on std::uint32_t: the sum modulo 2^32
Add32(x, y) ==
  LET lo == x[2] + y[2]
      hi == x[1] + y[1] + (lo \div Half)
  IN  <<hi % Half, lo % Half>>

\* x >> n on std::uint32_t, 0 < n < 32
Shr32(x, n) ==
  IF n < 16
    THEN <<x[1] \div (2 ^ n),
           (x[2] \div (2 ^ n)) + (x[1] % (2 ^ n)) * (2 ^ (16 - n))>>
    ELSE <<0, x[1] \div (2 ^ (n - 16))>>

\* x << n on std::uint32_t, 0 < n < 32: the bits shifted past bit 31 are lost
Shl32(x, n) ==
  IF n < 16
    THEN <<((x[1] * (2 ^ n)) % Half) + (x[2] \div (2 ^ (16 - n))),
           (x[2] * (2 ^ n)) % Half>>
    ELSE <<(x[2] * (2 ^ (n - 16))) % Half, 0>>

\* rotr without the bits that wrap around: (x >> n) alone
rotr_no_wrap(x, n) == Shr32(x, n)

rotr(x, n) == Or32(Shr32(x, n), Shl32(x, 32 - n))

choose(e, f, g) == Xor32(And32(e, f), And32(Not32(e), g))

majority(a, b, c) == Xor32(Xor32(And32(a, b), And32(a, c)), And32(b, c))

sigma0(x) == Xor32(Xor32(rotr(x, 2), rotr(x, 13)), rotr(x, 22))

sigma1(x) == Xor32(Xor32(rotr(x, 6), rotr(x, 11)), rotr(x, 25))

gamma0(x) == Xor32(Xor32(rotr(x, 7), rotr(x, 18)), Shr32(x, 3))

gamma1(x) == Xor32(Xor32(rotr(x, 17), rotr(x, 19)), Shr32(x, 10))

k_round_constants ==
  <<
    <<17034, 12184>>, <<28983, 17553>>, <<46528, 64463>>, <<59829, 56229>>,
    <<14678, 49755>>, <<23025, 4593>>, <<37439, 33444>>, <<43804, 24277>>,
    <<55303, 43672>>, <<4739, 23297>>, <<9265, 34238>>, <<21772, 32195>>,
    <<29374, 23924>>, <<32990, 45566>>, <<39900, 1703>>, <<49563, 61812>>,
    <<58523, 27073>>, <<61374, 18310>>, <<4033, 40390>>, <<9228, 41420>>,
    <<11753, 11375>>, <<19060, 33962>>, <<23728, 43484>>, <<30457, 35034>>,
    <<38974, 20818>>, <<43057, 50797>>, <<45059, 10184>>, <<48985, 32711>>,
    <<50912, 3059>>, <<54695, 37191>>, <<1738, 25425>>, <<5161, 10599>>,
    <<10167, 2693>>, <<11803, 8504>>, <<19756, 28156>>, <<21304, 3347>>,
    <<25866, 29524>>, <<30314, 2747>>, <<33218, 51502>>, <<37490, 11397>>,
    <<41663, 59553>>, <<43034, 26187>>, <<49739, 35696>>, <<51052, 20899>>,
    <<53650, 59417>>, <<54937, 1572>>, <<62478, 13701>>, <<4202, 41072>>,
    <<6564, 49430>>, <<7735, 27656>>, <<10056, 30540>>, <<13488, 48309>>,
    <<14620, 3251>>, <<20184, 43594>>, <<23452, 51791>>, <<26670, 28659>>,
    <<29839, 33518>>, <<30885, 25455>>, <<33992, 30740>>, <<36039, 520>>,
    <<37054, 65530>>, <<42064, 27883>>, <<48889, 41975>>, <<50801, 30962>>
  >>

k_initial_hash ==
  <<
    <<27145, 58983>>, <<47975, 44677>>, <<15470, 62322>>, <<42319, 62778>>,
    <<20750, 21119>>, <<39685, 26764>>, <<8067, 55723>>, <<23520, 52505>>
  >>

\* w[i] for i < 16: four bytes of the block, most significant first
BlockWord(block, i) ==
  <<256 * block[4 * i] + block[4 * i + 1],
    256 * block[4 * i + 2] + block[4 * i + 3]>>

\* F applied to the value of e: e is evaluated once, however often F uses
\* its parameter
With(e, F(_)) == CHOOSE r \in {F(x) : x \in {e}} : TRUE

\* "Extend message schedule": w holds w[0..i-1] as a sequence (w[j] is its
\* element j + 1) and i = Len(w); the loop runs for 16 <= i < 64
RECURSIVE Schedule(_)
Schedule(w) ==
  IF Len(w) < 64
    THEN LET i == Len(w)
         IN  Schedule(
               Append(w, Add32(Add32(Add32(gamma1(w[i - 2 + 1]), w[i - 7 + 1]),
                                     gamma0(w[i - 15 + 1])),
                               w[i - 16 + 1])))
    ELSE w

\* one pass of the main compression loop; v is <<a, b, c, d, e, f, g, h>>
CompressRound(v, w, i) ==
  LET t1 == Add32(Add32(Add32(Add32(v[8], sigma1(v[5])),
                              choose(v[5], v[6], v[7])),
                        k_round_constants[i + 1]),
                  w[i + 1])
      t2 == Add32(sigma0(v[1]), majority(v[1], v[2], v[3]))
  IN  <<Add32(t1, t2), v[1], v[2], v[3], Add32(v[4], t1), v[5], v[6], v[7]>>

\* "Main compression loop", for i < 64, over the eight working variables
RECURSIVE Compress(_, _, _)
Compress(v, w, i) ==
  IF i < 64 /\ Len(v) = 8
    THEN Compress(CompressRound(v, w, i), w, i + 1)
    ELSE v

\* Sha256::transform: the new m_state after compressing one 64-byte block
transform(m_state, block) ==
  With(Schedule([i \in 1..16 |-> BlockWord(block, i - 1)]), LAMBDA w :
  With(Compress(m_state, w, 0), LAMBDA v :
    [i \in 1..8 |-> Add32(m_state[i], v[i])]))

(***************************************************************************)
(* The Sha256 object                                                       *)
(***************************************************************************)

\* Content of a byte of m_block that no statement has written yet.  The
\* constructor leaves m_block alone; a digest computed from such a byte is
\* outside 0..255 arithmetic and cannot equal a digest of written bytes.
Indeterminate == 0 - 1

\* memcpy whose source pointer was not advanced: copies from the span's start
memcpy_from_start(dst, at, src, from, n) ==
  [i \in DOMAIN dst |->
     IF at <= i /\ i < at + n THEN src[i - at + 1] ELSE dst[i]]

\* std::memcpy(dst + at, src + from, n) where dst is a 0-based array and src
\* a span (sequence)
memcpy(dst, at, src, from, n) ==
  [i \in DOMAIN dst |->
     IF at <= i /\ i < at + n THEN src[i - at + from + 1] ELSE dst[i]]

\* std::memset(dst + at, 0, n)
memset0(dst, at, n) ==
  [i \in DOMAIN dst |-> IF at <= i /\ i < at + n THEN 0 ELSE dst[i]]

\* the 64 bytes data[from .. from + 63] of a span, as a 0-based block
SpanBlock(data, from) == [i \in 0..(block_size - 1) |-> data[from + i + 1]]

\* reset that leaves m_finalized as it is
reset_keeps_finalized(c) ==
  [c EXCEPT !.m_state = k_initial_hash,
            !.m_block_len = 0,
            !.m_total_len = 0]

\* reset that leaves the buffered byte count as it is
reset_keeps_block_len(c) ==
  [c EXCEPT !.m_state = k_initial_hash,
            !.m_total_len = 0,
            !.m_finalized = FALSE]

\* Sha256::reset
reset(c) ==
  [c EXCEPT !.m_state = k_initial_hash,
            !.m_block_len = 0,
            !.m_total_len = 0,
            !.m_finalized = FALSE]

\* the object as the constructor leaves it: reset() over unwritten members
Sha256 ==
  reset([m_state     |-> k_initial_hash,
         m_block     |-> [i \in 0..(block_size - 1) |-> Indeterminate],
         m_block_len |-> 0,
         m_total_len |-> 0,
         m_finalized |-> TRUE])

\* "Process full blocks directly from input": while(len >= block_size)
RECURSIVE DirectBlocks(_, _, _, _)
DirectBlocks(m_state, data, pos, len) ==
  IF len >= block_size
    THEN With(transform(m_state, SpanBlock(data, pos)), LAMBDA next_state :
           DirectBlocks(next_state, data, pos + block_size, len - block_size))
    ELSE m_state

\* the expression asserted at the top of update
update_assert(c) == ~c.m_finalized

\* Sha256::update(data, len) below its assert
update(c, data) ==
  IF Len(data) = 0
    THEN c
    ELSE
      LET len0     == Len(data)
          leftover == c.m_block_len > 0
          space    == block_size - c.m_block_len
          to_copy  == IF leftover
                        THEN (IF len0 < space THEN len0 ELSE space)
                        ELSE 0
          filled   == leftover /\ c.m_block_len + to_copy = block_size
          blen1    == IF filled THEN 0 ELSE c.m_block_len + to_copy
          len1     == len0 - to_copy
          pos2     == to_copy + block_size * (len1 \div block_size)
          len2     == len1 % block_size
      IN
      \* "If we have leftover data in block, try to fill it first"
      With(IF leftover
             THEN memcpy(c.m_block, c.m_block_len, data, 0, to_copy)
             ELSE c.m_block, LAMBDA block1 :
      With(IF filled THEN transform(c.m_state, block1) ELSE c.m_state,
           LAMBDA state1 :
      \* "Process full blocks directly from input"
      With(DirectBlocks(state1, data, to_copy, len1), LAMBDA state2 :
      \* "Store remaining bytes"
        [m_state     |-> state2,
         m_block     |-> IF len2 > 0
                           THEN memcpy(block1, 0, data, pos2, len2)
                           ELSE block1,
         m_block_len |-> IF len2 > 0 THEN len2 ELSE blen1,
         m_total_len |-> c.m_total_len + len0,
         m_finalized |-> c.m_finalized])))

\* static_cast<byte>(x >> s) of a std::uint64_t x; the model keeps
\* x < 2^31, so the bits from 31 up are zero
ShrByte(x, s) == IF s >= 31 THEN 0 ELSE (x \div (2 ^ s)) % 256

\* "Convert state to big-endian output": result.buffer as a sequence
StateBytes(m_state) ==
  [j \in 1..digest_size |->
     LET val == m_state[((j - 1) \div 4) + 1]
         r   == (j - 1) % 4
     IN  IF r = 0 THEN val[1] \div 256
         ELSE IF r = 1 THEN val[1] % 256
         ELSE IF r = 2 THEN val[2] \div 256
         ELSE val[2] % 256]

\* the expression asserted at the top of finalize
finalize_assert(c) == ~c.m_finalized

\* the offsets of m_block a write of n bytes at offset at touches; n is a
\* std::size_t, so a negative difference is a count that runs far past the
\* array (block_size stands for every offset behind it)
Written(at, n) == IF n < 0 THEN at..block_size ELSE at..(at + n - 1)

\* Sha256::finalize with "m_block_len >= 56" as the test for the extra block
finalize_extra_block_at_56(c) ==
  LET bit_len == c.m_total_len * 8
      blen1   == c.m_block_len + 1
      extra   == blen1 >= 56
      blen2   == IF extra THEN 0 ELSE blen1
  IN
  With([c.m_block EXCEPT ![c.m_block_len] = 128], LAMBDA block1 :
  With(IF extra THEN memset0(block1, blen1, block_size - blen1) ELSE block1,
       LAMBDA block2 :
  With(IF extra THEN transform(c.m_state, block2) ELSE c.m_state,
       LAMBDA state2 :
  With(memset0(block2, blen2, 56 - blen2), LAMBDA block3 :
  With([i \in 0..(block_size - 1) |->
          IF i >= 56 THEN ShrByte(bit_len, 8 * (63 - i)) ELSE block3[i]],
       LAMBDA block4 :
  With(transform(state2, block4), LAMBDA state3 :
    [obj    |-> [m_state     |-> state3,
                 m_block     |-> block4,
                 m_block_len |-> blen2,
                 m_total_len |-> c.m_total_len,
                 m_finalized |-> TRUE],
     result |-> StateBytes(state3),
     blocks |-> IF extra THEN <<block2, block4>> ELSE <<block4>>,
     writes |-> {c.m_block_len}
                  \cup (IF extra THEN Written(blen1, block_size - blen1) ELSE {})
                  \cup Written(blen2, 56 - blen2)
                  \cup 56..63]))))))

\* Sha256::finalize below its assert: the object afterwards, the result, the
\* blocks handed to transform and the offsets of m_block written
finalize(c) ==
  LET bit_len == c.m_total_len * 8
      blen1   == c.m_block_len + 1
      extra   == blen1 > 56
      blen2   == IF extra THEN 0 ELSE blen1
  IN
  \* "Append padding bit (0x80)"
  With([c.m_block EXCEPT ![c.m_block_len] = 128], LAMBDA block1 :
  \* "If not enough space for length (need 8 bytes), pad current block and process"
  With(IF extra THEN memset0(block1, blen1, block_size - blen1) ELSE block1,
       LAMBDA block2 :
  With(IF extra THEN transform(c.m_state, block2) ELSE c.m_state,
       LAMBDA state2 :
  \* "Pad with zeros until 56 bytes"
  With(memset0(block2, blen2, 56 - blen2), LAMBDA block3 :
  \* "Append length in big-endian (last 8 bytes)"
  With([i \in 0..(block_size - 1) |->
          IF i >= 56 THEN ShrByte(bit_len, 8 * (63 - i)) ELSE block3[i]],
       LAMBDA block4 :
  With(transform(state2, block4), LAMBDA state3 :
    [obj    |-> [m_state     |-> state3,
                 m_block     |-> block4,
                 m_block_len |-> blen2,
                 m_total_len |-> c.m_total_len,
                 m_finalized |-> TRUE],
     result |-> StateBytes(state3),
     blocks |-> IF extra THEN <<block2, block4>> ELSE <<block4>>,
     writes |-> {c.m_block_len}
                  \cup (IF extra THEN Written(blen1, block_size - blen1) ELSE {})
                  \cup Written(blen2, 56 - blen2)
                  \cup 56..63]))))))

\* Sha256::hash: the one-shot wrapper
Sha256_hash(data) == finalize(update(Sha256, data)).result

(***************************************************************************)
(* SMBIOS table walk (Identy_hwid.cxx get_smbios_uuid, Identy_vm.cxx       *)
(* get_smbios_string / get_smbios_manufacturer)                            *)
(*                                                                         *)
(* Memory is the table followed by the bytes that happen to be readable    *)
(* behind it: mem = buf \o tail.  A pointer is its offset from the table   *)
(* start; offset o is the element o + 1 of mem.  Reading at an offset      *)
(* >= Len(buf) is a read outside the table: it yields the byte of tail     *)
(* found there, or faults when nothing is mapped at that offset.           *)
(***************************************************************************)
SMBIOS_type_system_information == 1

SMBIOS_system_information_header_length == 24

SMBIOS_uuid_offset == 8

SMBIOS_uuid_length == 16

SMBIOS_type_system_manufacturer == 1

SMBIOS_system_manufacturer_offset == 4

NoRead == 0 - 1

Rd(mem, o) == mem[o + 1]

Mapped(mem, o) == o < Len(mem)

Max(a, b) == IF a >= b THEN a ELSE b

\* "skip strings block":
\*   while(next + 1 < end && (*next != 0 || *(next + 1) != 0)) next++;
\* the value of next when the loop ends (n is the table length, end - begin)
RECURSIVE skip_strings(_, _, _)
skip_strings(mem, n, next) ==
  IF next + 1 < n /\ (Rd(mem, next) # 0 \/ Rd(mem, next + 1) # 0)
    THEN skip_strings(mem, n, next + 1)
    ELSE next

\* the highest offset the loop of skip_strings can have read when it started
\* at next0 and ended at next1: it reads *next and *(next + 1) only under
\* next + 1 < end
skip_strings_reads(n, next0, next1) ==
  IF next0 + 1 < n
    THEN (IF next1 + 1 < n THEN next1 + 1 ELSE next1)
    ELSE NoRead

\* the walk resumed at the terminator instead of behind it
next_record_at_terminator(next) == next

\* smbios_begin = next + 2
next_record(next) == next + 2

\* if(next + 2 > smbios_end) break;
walk_break(n, next) == next + 2 > n

\* if(smbios_begin + SMBIOS_uuid_offset + SMBIOS_uuid_length > smbios_end) break;
uuid_break(n, begin) == begin + SMBIOS_uuid_offset + SMBIOS_uuid_length > n

\* the length test with > in place of >=
is_system_information_strict(type, length) ==
  type = SMBIOS_type_system_information
    /\ length > SMBIOS_system_information_header_length

\* header->type == SMBIOS_type_system_information
\*   && header->length >= SMBIOS_system_information_header_length
is_system_information(type, length) ==
  type = SMBIOS_type_system_information
    /\ length >= SMBIOS_system_information_header_length

\* One pass of the while loop of get_smbios_uuid, entered with
\* smbios_begin < smbios_end.  kind: "return" (value is the vector returned),
\* "break", "continue" (begin is the new smbios_begin) or "fault"; hi is the
\* highest offset read.
get_smbios_uuid_pass(mem, n, begin) ==
  IF ~Mapped(mem, begin + 1)
    THEN [kind |-> "fault", begin |-> begin, value |-> <<>>, hi |-> begin + 1]
    ELSE
      LET type   == Rd(mem, begin)
          length == Rd(mem, begin + 1)
          uuid   == begin + SMBIOS_uuid_offset
          next0  == begin + length
          next   == skip_strings(mem, n, next0)
          hi     == Max(begin + 1, skip_strings_reads(n, next0, next))
      IN  IF is_system_information(type, length)
            THEN IF uuid_break(n, begin)
                   THEN [kind |-> "break", begin |-> begin, value |-> <<>>,
                         hi |-> begin + 1]
                   ELSE [kind  |-> "return", begin |-> begin,
                         value |-> [i \in 1..SMBIOS_uuid_length |->
                                      Rd(mem, uuid + i - 1)],
                         hi    |-> uuid + SMBIOS_uuid_length - 1]
            ELSE IF walk_break(n, next)
                   THEN [kind |-> "break", begin |-> begin, value |-> <<>>,
                         hi |-> hi]
                   ELSE [kind |-> "continue", begin |-> next_record(next),
                         value |-> <<>>, hi |-> hi]

\* the offset of the first NUL at or after p, Len(mem) when the scan runs
\* off the mapped bytes
RECURSIVE strlen_end(_, _)
strlen_end(mem, p) ==
  IF ~Mapped(mem, p) THEN Len(mem)
  ELSE IF Rd(mem, p) = 0 THEN p
  ELSE strlen_end(mem, p + 1)

\* return { ptr }: the string_view that ends before the first NUL
string_at(mem, ptr, hi) ==
  LET e == strlen_end(mem, ptr)
  IN  IF ~Mapped(mem, e)
        THEN [fault |-> TRUE, str |-> <<>>, hi |-> Max(hi, e)]
        ELSE [fault |-> FALSE, str |-> SubSeq(mem, ptr + 1, e), hi |-> Max(hi, e)]

\* while(--index > 0 && *ptr) ptr += std::string_view(ptr).size() + 1;
\* entered with index already decremented, then return { ptr }
RECURSIVE string_walk(_, _, _, _)
string_walk(mem, ptr, index, hi) ==
  IF index > 0
    THEN IF ~Mapped(mem, ptr)
           THEN [fault |-> TRUE, str |-> <<>>, hi |-> Max(hi, ptr)]
           ELSE IF Rd(mem, ptr) # 0
                  THEN LET e == strlen_end(mem, ptr)
                       IN  IF ~Mapped(mem, e)
                             THEN [fault |-> TRUE, str |-> <<>>, hi |-> Max(hi, e)]
                             ELSE string_walk(mem, e + 1, index - 1, Max(hi, e))
                  ELSE string_at(mem, ptr, Max(hi, ptr))
    ELSE string_at(mem, ptr, hi)

\* get_smbios_string with index-- > 0 in place of --index > 0
get_smbios_string_post_decrement(mem, begin, index) ==
  IF index = 0
    THEN [fault |-> FALSE, str |-> <<>>, hi |-> NoRead]
    ELSE IF ~Mapped(mem, begin + 1)
           THEN [fault |-> TRUE, str |-> <<>>, hi |-> begin + 1]
           ELSE string_walk(mem, begin + Rd(mem, begin + 1), index, begin + 1)

\* get_smbios_string(header, index), header at offset begin
get_smbios_string(mem, begin, index) ==
  IF index = 0
    THEN [fault |-> FALSE, str |-> <<>>, hi |-> NoRead]
    ELSE IF ~Mapped(mem, begin + 1)
           THEN [fault |-> TRUE, str |-> <<>>, hi |-> begin + 1]
           ELSE string_walk(mem, begin + Rd(mem, begin + 1), index - 1, begin + 1)

\* One pass of the while loop of get_smbios_manufacturer, entered with
\* raw_smbios < raw_smbios_end and the string_view manufacturer as it is.
get_smbios_manufacturer_pass(mem, n, begin, view) ==
  LET type   == Rd(mem, begin)
      is_sys == type = SMBIOS_type_system_manufacturer
      idx_at == begin + SMBIOS_system_manufacturer_offset
  IN  IF is_sys /\ ~Mapped(mem, idx_at)
        THEN [kind |-> "fault", begin |-> begin, view |-> view, hi |-> idx_at]
        ELSE
          LET idx  == IF is_sys THEN Rd(mem, idx_at) ELSE 0
              s    == get_smbios_string(mem, begin, idx)
              view1 == IF is_sys /\ idx # 0 THEN s.str ELSE view
              hi1  == IF is_sys THEN Max(idx_at, s.hi) ELSE begin
          IN  IF s.fault
                THEN [kind |-> "fault", begin |-> begin, view |-> view, hi |-> hi1]
                ELSE IF ~Mapped(mem, begin + 1)
                  THEN [kind |-> "fault", begin |-> begin, view |-> view1,
                        hi |-> Max(hi1, begin + 1)]
                  ELSE
                    LET next0 == begin + Rd(mem, begin + 1)
                        next  == skip_strings(mem, n, next0)
                        hi    == Max(Max(hi1, begin + 1),
                                     skip_strings_reads(n, next0, next))
                    IN  IF walk_break(n, next)
                          THEN [kind |-> "break", begin |-> begin,
                                view |-> view1, hi |-> hi]
                          ELSE [kind |-> "continue", begin |-> next_record(next),
                                view |-> view1, hi |-> hi]

(***************************************************************************)
(* Tables the walk is run on                                               *)
(***************************************************************************)
MaxRecs == 2

MaxRawLen == 3

\* an SMBIOS structure: header (type, length, handle 0), the rest of the
\* formatted area, and its strings (non-empty, no NUL inside)
Rec(type, body, strings) ==
  [type    |-> type,
   fmt     |-> <<type, 4 + Len(body), 0, 0>> \o body,
   strings |-> strings]

RECURSIVE StringBytes(_)
StringBytes(strings) ==
  IF strings = <<>>
    THEN <<>>
    ELSE Head(strings) \o <<0>> \o StringBytes(Tail(strings))

\* the bytes of one structure: formatted area, then each string with its NUL,
\* then the NUL that ends the string table (two NULs when there is no string)
Encode(rec) ==
  rec.fmt \o (IF rec.strings = <<>> THEN <<0, 0>> ELSE StringBytes(rec.strings) \o <<0>>)

RECURSIVE EncodeTable(_)
EncodeTable(t) ==
  IF t = <<>> THEN <<>> ELSE Encode(Head(t)) \o EncodeTable(Tail(t))

\* 16 bytes that tell one UUID from another and one position from another
Uuid(k) == [i \in 1..SMBIOS_uuid_length |-> 16 * k + i]

\* a System Information structure: manufacturer index, three more string
\* indices, the UUID at offset 8, extra bytes up to the wanted length
Sys(idx, k, extra, strings) ==
  Rec(SMBIOS_type_system_information, <<idx, 0, 0, 0>> \o Uuid(k) \o extra, strings)

RecordLib ==
  { Rec(0, <<>>, <<>>),
    Rec(2, <<1>>, << <<65, 66>> >>),
    Rec(127, <<>>, <<>>),
    Rec(SMBIOS_type_system_information, <<>>, <<>>),
    Rec(SMBIOS_type_system_information, <<1, 0, 0, 0>>, << <<68>> >>),
    Sys(0, 1, <<>>, << <<65, 66>>, <<67>> >>),
    Sys(2, 2, <<7>>, << <<65, 66>>, <<67>> >>),
    Sys(1, 3, <<>>, << <<69>> >>) }

Tables == UNION {[1..k -> RecordLib] : k \in 0..MaxRecs}

Front(t) == SubSeq(t, 1, Len(t) - 1)

\* every proper prefix of the encoding of t that ends inside its last structure
Truncations(t) ==
  IF t = <<>>
    THEN {}
    ELSE LET whole == EncodeTable(t)
         IN  {SubSeq(whole, 1, cut) :
                cut \in (Len(EncodeTable(Front(t))) + 1)..(Len(whole) - 1)}

RawBytes == {0, 1, 24, 65}

\* every byte sequence over RawBytes up to MaxRawLen bytes
RawBuffers == UNION {[1..k -> RawBytes] : k \in 0..MaxRawLen}

\* what may lie behind the table: nothing mapped, or a few readable bytes
Tails == {<<>>, <<0, 0>>, <<2, 65, 0, 66, 0, 0>>}

ZeroUuid == [i \in 1..SMBIOS_uuid_length |-> 0]

\* "Motherboard motherboard;" gives smbios.uuid no value: whatever the stack held
StackGarbage == {ZeroUuid, [i \in 1..SMBIOS_uuid_length |-> 204]}

IdleFingerprint ==
  /\ platform = "none"
  /\ crypt_fails = "none"
  /\ fp_fn = "none"
  /\ boards = <<>>
  /\ fp = <<>>

\* "VMConfidence confidence { VMConfidence::Unlikely };" and no detection
HeuristicVerdict == [detections |-> <<>>, confidence |-> "Unlikely"]

IdleVm ==
  /\ vm_fn = "none"
  /\ snapshot = <<>>
  /\ verdict = HeuristicVerdict
  /\ vm_pc = "idle"
  /\ adapters_seen = <<>>
  /\ earlier = <<>>

\* no handle constructed, no buffer obtained
IdleHandle ==
  /\ handles = <<>>
  /\ heap = <<>>

IdleSysfs ==
  /\ uuid_str = <<>>
  /\ fallback_uid = <<>>
  /\ sysfs_pc = "idle"

IdleSha ==
  /\ ctx = Sha256
  /\ calls = <<>>
  /\ fed = <<>>
  /\ digest = <<>>
  /\ assert_failed = FALSE
  /\ build = "any"
  /\ aborted = FALSE
  /\ padded = [blocks |-> <<>>, writes |-> {}]

IdleSmbios ==
  /\ fn = "none"
  /\ avail = FALSE
  /\ buf = <<>>
  /\ tail = <<>>
  /\ recs = <<>>
  /\ wellformed = FALSE
  /\ pc = "idle"
  /\ off = 0
  /\ uuid_buffer = <<>>
  /\ mb_uuid = ZeroUuid
  /\ manufacturer = <<>>
  /\ max_read = NoRead
  /\ passes = 0

InitSmbios ==
  /\ IdleHandle
  /\ IdleSysfs
  /\ IdleSha
  /\ IdleFingerprint
  /\ IdleVm
  /\ fn \in {"snap_motherboard", "get_smbios_manufacturer"}
  /\ \/ /\ avail = TRUE
        /\ \E t \in Tables :
             \/ /\ buf = EncodeTable(t)
                /\ recs = t
                /\ wellformed = TRUE
                /\ tail = <<>>
             \/ /\ buf \in Truncations(t)
                /\ recs = <<>>
                /\ wellformed = FALSE
                /\ tail \in Tails
     \/ /\ avail = TRUE
        /\ buf \in RawBuffers
        /\ recs = <<>>
        /\ wellformed = FALSE
        /\ tail \in Tails
     \/ /\ avail = FALSE
        /\ fn = "snap_motherboard"
        /\ buf = <<>>
        /\ recs = <<>>
        /\ wellformed = FALSE
        /\ tail = <<>>
  /\ pc = IF fn = "snap_motherboard" THEN "snap" ELSE "man_loop"
  /\ off = 0
  /\ uuid_buffer = <<>>
  /\ mb_uuid \in IF fn = "snap_motherboard" THEN StackGarbage ELSE {ZeroUuid}
  /\ manufacturer = <<>>
  /\ max_read = NoRead
  /\ passes = 0

\* snap_motherboard up to the call of get_smbios_uuid
SnapMotherboardBegin ==
  /\ pc = "snap"
  /\ pc' = IF avail THEN "uuid_loop" ELSE "returned"
  /\ UNCHANGED <<fn, avail, buf, tail, recs, wellformed, off, uuid_buffer,
                 mb_uuid, manufacturer, max_read, passes>>
  /\ UNCHANGED <<shaVars, fpVars, vmVars, rhVars, sysfsVars>>

\* one pass of while(smbios_begin < smbios_end) in get_smbios_uuid
GetSmbiosUuidPass ==
  /\ pc = "uuid_loop"
  /\ off < Len(buf)
  /\ LET r == get_smbios_uuid_pass(buf \o tail, Len(buf), off)
     IN  /\ pc' = CASE r.kind = "continue" -> "uuid_loop"
                    [] r.kind = "fault" -> "fault"
                    [] OTHER -> "uuid_done"
         /\ off' = r.begin
         /\ uuid_buffer' = r.value
         /\ max_read' = Max(max_read, r.hi)
         /\ passes' = passes + 1
  /\ UNCHANGED <<fn, avail, buf, tail, recs, wellformed, mb_uuid, manufacturer>>
  /\ UNCHANGED <<shaVars, fpVars, vmVars, rhVars, sysfsVars>>

\* the loop condition fails: return {}
GetSmbiosUuidEnd ==
  /\ pc = "uuid_loop"
  /\ ~(off < Len(buf))
  /\ pc' = "uuid_done"
  /\ uuid_buffer' = <<>>
  /\ UNCHANGED <<fn, avail, buf, tail, recs, wellformed, off, mb_uuid,
                 manufacturer, max_read, passes>>
  /\ UNCHANGED <<shaVars, fpVars, vmVars, rhVars, sysfsVars>>

Min(a, b) == IF a <= b THEN a ELSE b

\* std::memcpy(motherboard.smbios.uuid, uuid.data(),
\*             std::min(uuid.size(), sizeof(motherboard.smbios.uuid)))
copy_uuid(dst, uuid) ==
  [i \in 1..SMBIOS_uuid_length |->
     IF i <= Min(Len(uuid), SMBIOS_uuid_length) THEN uuid[i] ELSE dst[i]]

\* snap_motherboard after get_smbios_uuid returned
SnapMotherboardCopy ==
  /\ pc = "uuid_done"
  /\ mb_uuid' = copy_uuid(mb_uuid, uuid_buffer)
  /\ pc' = "returned"
  /\ UNCHANGED <<fn, avail, buf, tail, recs, wellformed, off, uuid_buffer,
                 manufacturer, max_read, passes>>
  /\ UNCHANGED <<shaVars, fpVars, vmVars, rhVars, sysfsVars>>

\* one pass of while(raw_smbios < raw_smbios_end) in get_smbios_manufacturer
GetSmbiosManufacturerPass ==
  /\ pc = "man_loop"
  /\ off < Len(buf)
  /\ LET r == get_smbios_manufacturer_pass(buf \o tail, Len(buf), off, manufacturer)
     IN  /\ pc' = CASE r.kind = "continue" -> "man_loop"
                    [] r.kind = "fault" -> "fault"
                    [] OTHER -> "man_done"
         /\ off' = r.begin
         /\ manufacturer' = r.view
         /\ max_read' = Max(max_read, r.hi)
         /\ passes' = passes + 1
  /\ UNCHANGED <<fn, avail, buf, tail, recs, wellformed, uuid_buffer, mb_uuid>>
  /\ UNCHANGED <<shaVars, fpVars, vmVars, rhVars, sysfsVars>>

\* the loop condition fails: return std::string(manufacturer)
GetSmbiosManufacturerEnd ==
  /\ pc = "man_loop"
  /\ ~(off < Len(buf))
  /\ pc' = "man_done"
  /\ UNCHANGED <<fn, avail, buf, tail, recs, wellformed, off, uuid_buffer,
                 mb_uuid, manufacturer, max_read, passes>>
  /\ UNCHANGED <<shaVars, fpVars, vmVars, rhVars, sysfsVars>>

NextSmbios ==
  \/ SnapMotherboardBegin
  \/ GetSmbiosUuidPass
  \/ GetSmbiosUuidEnd
  \/ SnapMotherboardCopy
  \/ GetSmbiosManufacturerPass
  \/ GetSmbiosManufacturerEnd

SpecSmbios == InitSmbios /\ [][NextSmbios]_vars

SmbiosTypeOK ==
  /\ pc \in {"snap", "uuid_loop", "uuid_done", "returned", "man_loop",
             "man_done", "fault"}
  /\ off \in 0..Len(buf)
  /\ Len(uuid_buffer) \in {0, SMBIOS_uuid_length}

(***************************************************************************)
(* Properties of the SMBIOS walk                                           *)
(***************************************************************************)
WalkDone == pc \in {"uuid_done", "returned", "man_done"}

\* the structures of a table that are System Information with length >= 24
IsFullSys(rec) ==
  rec.type = 1 /\ Len(rec.fmt) >= 24

\* the index of the first structure of t that satisfies P, 0 when none does
FirstIndex(t, P(_)) ==
  IF \E i \in 1..Len(t) : P(t[i])
    THEN CHOOSE i \in 1..Len(t) : P(t[i]) /\ \A j \in 1..(i - 1) : ~P(t[j])
    ELSE 0

IsType1(rec) == rec.type = 1

IsType127(rec) == rec.type = 127

\* C1: get_smbios_uuid reads only offsets inside [0, buffer length), for
\* every buffer, also one shorter than a header.
C1_UuidReadsInsideBuffer ==
  fn = "snap_motherboard" => max_read < Len(buf)

\* C2: get_smbios_manufacturer with get_smbios_string reads only offsets
\* inside [0, buffer length), and a read that would fall outside gives the
\* empty string instead.
C2_ManufacturerReadsInsideBuffer ==
  fn = "get_smbios_manufacturer" =>
    /\ max_read < Len(buf)
    /\ pc # "fault"

\* C3: every pass of the record walk of get_smbios_uuid and of
\* get_smbios_manufacturer either stops the walk or moves the record offset
\* forward by at least 2 bytes and not past the end of the buffer, so the
\* walk ends after at most Len(buf) / 2 passes.
C3_WalkMovesForward ==
  [][passes' # passes =>
       \/ pc' \notin {"uuid_loop", "man_loop"}
       \/ /\ off' >= off + 2
          /\ off' <= Len(buf)
          /\ 2 * passes' <= Len(buf)]_vars

\* the walk went on past a structure whose length byte is 0 in a table that
\* is not well formed
C3_Witness ==
  /\ pc \in {"uuid_loop", "man_loop"}
  /\ ~wellformed
  /\ Len(buf) >= 2
  /\ buf[2] = 0
  /\ passes = 1
  /\ off >= 2

\* C4: on a well-formed table with a Type-1 structure of length >= 24,
\* get_smbios_uuid returns the 16 bytes at offset 8 of the first such
\* structure, whatever structures come before it.
C4_UuidOfFirstSystemInformation ==
  (fn = "snap_motherboard" /\ wellformed /\ pc \in {"uuid_done", "returned"}
     /\ FirstIndex(recs, IsFullSys) # 0) =>
    uuid_buffer = SubSeq(recs[FirstIndex(recs, IsFullSys)].fmt, 9, 24)

\* the UUID came from the second structure, behind one that has strings
C4_Witness ==
  /\ fn = "snap_motherboard"
  /\ wellformed
  /\ pc = "uuid_done"
  /\ Len(recs) = 2
  /\ recs[1].strings # <<>>
  /\ FirstIndex(recs, IsFullSys) = 2
  /\ uuid_buffer = SubSeq(recs[2].fmt, 9, 24)

\* the byte at offset 4 of a structure as it lies in the table
ByteAt4(rec) == Encode(rec)[5]

\* C5: on a well-formed table with exactly one Type-1 structure,
\* get_smbios_manufacturer returns that structure's i-th string, i being the
\* byte at its offset 4, when 1 <= i <= number of strings; and the empty
\* string when i = 0 or when the table has no Type-1 structure.
C5_ManufacturerIsIndexedString ==
  (fn = "get_smbios_manufacturer" /\ wellformed /\ pc = "man_done") =>
    LET ones == {i \in 1..Len(recs) : IsType1(recs[i])}
    IN  /\ ones = {} => manufacturer = <<>>
        /\ Cardinality(ones) = 1 =>
             LET rec == recs[CHOOSE i \in ones : TRUE]
                 i   == ByteAt4(rec)
             IN  /\ i = 0 => manufacturer = <<>>
                 /\ (1 <= i /\ i <= Len(rec.strings)) =>
                      manufacturer = rec.strings[i]

\* the second string of the only Type-1 structure was returned
C5_Witness ==
  /\ fn = "get_smbios_manufacturer"
  /\ wellformed
  /\ pc = "man_done"
  /\ Len(recs) = 2
  /\ ~IsType1(recs[1])
  /\ IsType1(recs[2])
  /\ ByteAt4(recs[2]) = 2
  /\ manufacturer = recs[2].strings[2]

\* C6: a type-127 structure stops the walk: when one comes before any Type-1
\* structure, get_smbios_uuid returns empty and get_smbios_manufacturer
\* returns the empty string.
C6_EndOfTableStopsWalk ==
  (wellformed /\ WalkDone /\ FirstIndex(recs, IsType127) # 0
     /\ \A j \in 1..FirstIndex(recs, IsType127) : ~IsType1(recs[j])) =>
    /\ uuid_buffer = <<>>
    /\ manufacturer = <<>>

\* C7: when the table is unavailable, empty or without a Type-1 structure of
\* length >= 24, snap_motherboard returns smbios.uuid as 16 zero bytes.
C7_AbsentUuidIsZero ==
  (pc = "returned"
     /\ (~avail \/ buf = <<>> \/ (wellformed /\ FirstIndex(recs, IsFullSys) = 0))) =>
    mb_uuid = ZeroUuid

\* C28: on a well-formed table, also one with several Type-1 structures, the
\* manufacturer get_smbios_manufacturer returns is the string that the
\* structure get_smbios_uuid takes the UUID from (the first Type-1 structure
\* with length >= 24) names at its offset 4: its i-th string, or the empty
\* string when that byte is 0.
C28_ManufacturerOfUuidRecord ==
  (fn = "get_smbios_manufacturer" /\ wellformed /\ pc = "man_done"
     /\ FirstIndex(recs, IsFullSys) # 0) =>
    LET rec == recs[FirstIndex(recs, IsFullSys)]
        i   == ByteAt4(rec)
    IN  /\ i = 0 => manufacturer = <<>>
        /\ (1 <= i /\ i <= Len(rec.strings)) => manufacturer = rec.strings[i]

(***************************************************************************)
(* Calls on one Sha256 object.  An assert whose condition is false ends    *)
(* the process in a build without NDEBUG; with NDEBUG the macro expands to *)
(* nothing and the body runs.  Which build it is shows only at the first   *)
(* failed assert.                                                          *)
(***************************************************************************)
MaxCalls == 4

\* a byte sequence of length n whose bytes differ from place to place
Pattern(n) == [i \in 1..n |-> (7 * i + n) % 256]

Abc == <<97, 98, 99>>

\* the spans handed to update: empty, shorter than a block, longer than a
\* block (after Abc it fills the pending block and leaves a remainder)
Chunks == {<<>>, Abc, Pattern(block_size + 6)}

InitSha ==
  /\ IdleHandle
  /\ IdleSysfs
  /\ IdleSmbios
  /\ IdleFingerprint
  /\ IdleVm
  /\ ctx = Sha256
  /\ calls = <<>>
  /\ fed = <<>>
  /\ digest = <<>>
  /\ assert_failed = FALSE
  /\ build = "any"
  /\ aborted = FALSE
  /\ padded = [blocks |-> <<>>, writes |-> {}]

\* what a call does once its assert was evaluated with value ok
AfterAssert(ok, body) ==
  /\ assert_failed' = ~ok
  /\ \/ /\ ok
        /\ body
        /\ UNCHANGED <<build, aborted>>
     \/ /\ ~ok
        /\ build = "any"
        /\ aborted' = TRUE
        /\ UNCHANGED <<ctx, fed, digest, build, padded>>
     \/ /\ ~ok
        /\ build' = "NDEBUG"
        /\ body
        /\ UNCHANGED aborted

CallUpdate(data) ==
  /\ ~aborted
  /\ Len(calls) < MaxCalls
  /\ calls' = Append(calls, [op |-> "update", len |-> Len(data)])
  /\ UNCHANGED <<smbiosVars, fpVars, vmVars, rhVars, sysfsVars>>
  /\ AfterAssert(update_assert(ctx),
                 /\ ctx' = update(ctx, data)
                 /\ fed' = fed \o data
                 /\ UNCHANGED <<digest, padded>>)

CallFinalize ==
  /\ ~aborted
  /\ Len(calls) < MaxCalls
  /\ calls' = Append(calls, [op |-> "finalize", len |-> 0])
  /\ UNCHANGED <<smbiosVars, fpVars, vmVars, rhVars, sysfsVars>>
  /\ AfterAssert(finalize_assert(ctx),
                 LET r == finalize(ctx)
                 IN  /\ ctx' = r.obj
                     /\ digest' = r.result
                     /\ padded' = [blocks |-> r.blocks, writes |-> r.writes]
                     /\ fed' = fed)

CallReset ==
  /\ ~aborted
  /\ Len(calls) < MaxCalls
  /\ calls' = Append(calls, [op |-> "reset", len |-> 0])
  /\ UNCHANGED <<smbiosVars, fpVars, vmVars, rhVars, sysfsVars>>
  /\ ctx' = reset(ctx)
  /\ fed' = <<>>
  /\ assert_failed' = FALSE
  /\ UNCHANGED <<digest, build, aborted, padded>>

NextSha ==
  \/ \E data \in Chunks : CallUpdate(data)
  \/ CallFinalize
  \/ CallReset

SpecSha == InitSha /\ [][NextSha]_vars

\* the longest message whose padding is looked at
MaxPadLen == 129

\* one update with a message of any length up to MaxPadLen on the
\* constructed object
PadUpdate ==
  /\ calls = <<>>
  /\ \E L \in 0..MaxPadLen : CallUpdate(Pattern(L))

NextPad ==
  \/ PadUpdate
  \/ CallFinalize

SpecPad == InitSha /\ [][NextPad]_vars

ShaTypeOK ==
  /\ ctx.m_block_len \in 0..(block_size - 1)
  /\ Len(digest) \in {0, digest_size}

(***************************************************************************)
(* Properties of Sha256                                                    *)
(***************************************************************************)
EmptyDigest ==
  << 227, 176, 196, 66, 152, 252, 28, 20, 154, 251, 244, 200, 153, 111, 185, 36,
     39, 174, 65, 228, 100, 155, 147, 76, 164, 149, 153, 27, 120, 82, 184, 85 >>

AbcDigest ==
  << 186, 120, 22, 191, 143, 1, 207, 234, 65, 65, 64, 222, 93, 174, 34, 35,
     176, 3, 97, 163, 150, 23, 122, 156, 180, 16, 255, 97, 242, 0, 21, 173 >>

\* the calls made are update, ..., update, finalize on the constructed object
UpdatesThenFinalize ==
  /\ calls # <<>>
  /\ calls[Len(calls)].op = "finalize"
  /\ \A i \in 1..(Len(calls) - 1) : calls[i].op = "update"

\* C8: for every byte sequence and every split of it into chunks, update on
\* each chunk of a fresh object and then finalize return what the one-shot
\* Sha256::hash returns for the whole sequence.
C8_ChunkedEqualsOneShot ==
  UpdatesThenFinalize => digest = Sha256_hash(fed)

\* two non-empty chunks, the second one crossing the 64-byte block boundary
C8_Witness ==
  /\ UpdatesThenFinalize
  /\ Len(calls) = 3
  /\ calls[1].len = 3
  /\ calls[2].len > block_size
  /\ digest = Sha256_hash(fed)

\* the calls Sha256::hash makes: update on the whole span, then finalize
OneShot == Len(calls) = 2 /\ UpdatesThenFinalize

\* C9: Sha256::hash of the empty sequence and of "abc" are the published
\* SHA-256 digests e3b0c442...7852b855 and ba7816bf...f20015ad.
C9_PublishedDigests ==
  /\ (OneShot /\ fed = <<>>) => digest = EmptyDigest
  /\ (OneShot /\ fed = Abc) => digest = AbcDigest

C9_Witness ==
  /\ OneShot
  /\ fed = Abc
  /\ digest = AbcDigest

\* a finalize was called in h with no reset after it
FinalizedSinceReset(h) ==
  \E i \in 1..Len(h) :
    /\ h[i].op = "finalize"
    /\ \A j \in (i + 1)..Len(h) : h[j].op # "reset"

\* C10: a call of update (also with empty data) or of finalize fails its
\* assert exactly when a finalize came before it with no reset in between.
C10_AssertExactlyAfterFinalize ==
  calls # <<>> =>
    (assert_failed <=>
       /\ calls[Len(calls)].op \in {"update", "finalize"}
       /\ FinalizedSinceReset(SubSeq(calls, 1, Len(calls) - 1)))

\* update with empty data right after finalize failed its assert
C10_Witness ==
  /\ Len(calls) = 2
  /\ calls[1].op = "finalize"
  /\ calls[2] = [op |-> "update", len |-> 0]
  /\ assert_failed

\* the last three calls are reset, update, finalize
ResetThenHash ==
  /\ Len(calls) >= 3
  /\ calls[Len(calls) - 2].op = "reset"
  /\ calls[Len(calls) - 1].op = "update"
  /\ calls[Len(calls)].op = "finalize"

\* C11: after reset the object behaves as a freshly constructed one, whatever
\* was called before: update(b) and then finalize pass their asserts and
\* return Sha256::hash(b).
C11_ResetBehavesAsFresh ==
  ResetThenHash => (~assert_failed /\ digest = Sha256_hash(fed))

\* reset of an object that holds buffered bytes, then the hash of "abc"
C11_Witness ==
  /\ Len(calls) = 4
  /\ calls[1] = [op |-> "update", len |-> block_size + 6]
  /\ ResetThenHash
  /\ fed = Abc
  /\ digest = AbcDigest

\* reset of a finalized object, then the hash of "abc"
C11_WitnessAfterFinalize ==
  /\ Len(calls) = 4
  /\ calls[1].op = "finalize"
  /\ ResetThenHash
  /\ fed = Abc
  /\ digest = AbcDigest

\* the first finalize of the object has returned, after updates only
PadFinalized == UpdatesThenFinalize /\ ~assert_failed

\* byte j (0 the most significant) of the 64-bit big-endian form of the bit
\* length of a message of len bytes, for len * 8 < 2^31
LengthByte(len, j) == IF j < 4 THEN 0 ELSE ((len * 8) \div (256 ^ (7 - j))) % 256

\* the bytes of the message that do not fill a block: offset i of its tail
TailByte(i) == fed[Len(fed) - (Len(fed) % block_size) + i + 1]

\* the byte at offset i of the blocks finalize compressed, one after another
PaddedByte(i) == padded.blocks[(i \div block_size) + 1][i % block_size]

\* C24 (as stated): for every message length L, finalize writes inside the
\* 64-byte block only, compresses one block when L mod 64 <= 55 and two when
\* L mod 64 >= 56, and the last compressed block holds the message tail, the
\* 0x80 byte right after it, zero bytes up to offset 56 and L*8 as a
\* big-endian 64-bit integer in bytes 56..63.
C24_LastBlockHoldsPadding ==
  PadFinalized =>
    LET r    == Len(fed) % block_size
        last == padded.blocks[Len(padded.blocks)]
    IN  /\ padded.writes \subseteq 0..(block_size - 1)
        /\ Len(padded.blocks) = (IF r <= 55 THEN 1 ELSE 2)
        /\ \A i \in 0..(r - 1) : last[i] = TailByte(i)
        /\ last[r] = 128
        /\ \A i \in (r + 1)..55 : last[i] = 0
        /\ \A j \in 0..7 : last[56 + j] = LengthByte(Len(fed), j)

\* C24 (amended): for every message length L, finalize writes inside the
\* 64-byte block only, compresses one block when L mod 64 <= 55 and two when
\* L mod 64 >= 56, and the compressed blocks hold, in order, the message
\* tail, the 0x80 byte, zero bytes up to offset 56 of the last block and L*8
\* as a big-endian 64-bit integer in bytes 56..63 of the last block.
C24_PaddingAcrossBlocks ==
  PadFinalized =>
    LET r == Len(fed) % block_size
        n == Len(padded.blocks)
    IN  /\ padded.writes \subseteq 0..(block_size - 1)
        /\ n = (IF r <= 55 THEN 1 ELSE 2)
        /\ \A i \in 0..(r - 1) : PaddedByte(i) = TailByte(i)
        /\ PaddedByte(r) = 128
        /\ \A i \in (r + 1)..(block_size * n - 9) : PaddedByte(i) = 0
        /\ \A j \in 0..7 :
             PaddedByte(block_size * n - 8 + j) = LengthByte(Len(fed), j)

\* a message of 120 bytes: 56 bytes are pending, the 0x80 byte leaves no room
\* for the length and finalize compresses two blocks
C24_Witness ==
  /\ PadFinalized
  /\ Len(fed) = 120
  /\ Len(padded.blocks) = 2
  /\ padded.blocks[1][56] = 128
  /\ padded.blocks[2][62] = 3
  /\ padded.blocks[2][63] = 192

(***************************************************************************)
(* Fingerprint (Identy_hash.cxx)                                           *)
(*                                                                         *)
(* A register_32 is a signed 32-bit integer and is written to the buffer   *)
(* as the four bytes of its object representation, least significant       *)
(* first (the serializers exist in the IDENTY_WIN32 build only).  Strings  *)
(* are sequences of bytes.  A snapshot is [cpu, smbios] (Motherboard) or   *)
(* [cpu, smbios, drives] (MotherboardEx).                                  *)
(***************************************************************************)
RegisterBytes(v) == [i \in 1..4 |-> (v \div (256 ^ (i - 1))) % 256]

\* the conversion of an integer to identy::byte made by push_back
ToByte(v) == v % 256

\* enum BusType { SATA, NMVe, USB, Other }
BusType == [SATA |-> 0, NMVe |-> 1, USB |-> 2, Other |-> 3]

\* buffer.push_back(board.cpu.logical_processors_count)
push_back_count(v) == <<ToByte(v)>>

\* serialize_motherboard
serialize_motherboard(board) ==
  board.cpu.vendor
    \o RegisterBytes(board.cpu.version)
    \o <<board.cpu.brand_index>>
    \o <<board.cpu.clflush_line_size>>
    \o push_back_count(board.cpu.logical_processors_count)
    \o <<board.cpu.apic_id>>
    \o board.cpu.extended_brand_string
    \o RegisterBytes(board.cpu.instruction_set.basic)
    \o RegisterBytes(board.cpu.instruction_set.modern)
    \o RegisterBytes(board.cpu.instruction_set.extended_modern[1])
    \o RegisterBytes(board.cpu.instruction_set.extended_modern[2])
    \o RegisterBytes(board.cpu.instruction_set.extended_modern[3])
    \o <<IF board.smbios.is_20_calling_used THEN 1 ELSE 0>>
    \o <<board.smbios.major_version>>
    \o <<board.smbios.minor_version>>
    \o <<board.smbios.dmi_version>>
    \o board.smbios.uuid
    \o board.smbios.raw_tables_data

\* the loop of serialize_motherboard_ex over board.drives, in the order given
RECURSIVE serialize_drives(_)
serialize_drives(drives) ==
  IF drives = <<>>
    THEN <<>>
    ELSE RegisterBytes(BusType[Head(drives).bus_type])
           \o Head(drives).device_name
           \o Head(drives).serial
           \o serialize_drives(Tail(drives))

\* serialize_motherboard_ex
serialize_motherboard_ex(board) ==
  serialize_motherboard([cpu |-> board.cpu, smbios |-> board.smbios])
    \o serialize_drives(board.drives)

\* "Hash256 result {}" and "Hash256()": 32 zero bytes
ZeroHash == [i \in 1..digest_size |-> 0]

\* the CryptoAPI calls of compute_sha256, in the order made
CryptCalls ==
  <<"CryptAcquireContextW", "CryptCreateHash", "CryptHashData", "CryptGetHashParam">>

\* compute_sha256: the first three calls return result early when they fail;
\* the return value of CryptGetHashParam is not looked at and result.buffer
\* stays as initialized when it writes nothing
compute_sha256(data, failing) ==
  IF \E i \in 1..Len(CryptCalls) : CryptCalls[i] = failing
    THEN ZeroHash
    ELSE Sha256_hash(data)

\* default_hash / default_hash_ex: what was serialized (nothing outside
\* IDENTY_WIN32) and the Hash256 returned
default_hash(board, build_for, failing) ==
  IF build_for = "IDENTY_WIN32"
    THEN With(serialize_motherboard(board), LAMBDA serialized_data :
           [bytes  |-> serialized_data,
            digest |-> compute_sha256(serialized_data, failing)])
    ELSE [bytes |-> <<>>, digest |-> ZeroHash]

default_hash_ex(board, build_for, failing) ==
  IF build_for = "IDENTY_WIN32"
    THEN With(serialize_motherboard_ex(board), LAMBDA serialized_data :
           [bytes  |-> serialized_data,
            digest |-> compute_sha256(serialized_data, failing)])
    ELSE [bytes |-> <<>>, digest |-> ZeroHash]

(***************************************************************************)
(* Snapshots the fingerprint is taken of, two at a time                    *)
(***************************************************************************)
MaxDrives == 2

BaseCpu ==
  [vendor                   |-> <<71, 73>>,
   version                  |-> 591594,
   brand_index              |-> 0,
   clflush_line_size        |-> 8,
   logical_processors_count |-> 16,
   apic_id                  |-> 2,
   extended_brand_string    |-> <<105, 55>>,
   instruction_set          |->
     [basic           |-> 0 - 1075053569,
      modern          |-> 2147154943,
      extended_modern |-> <<43806655, 0, 0 - 1140850688>>]]

BaseSmbios ==
  [is_20_calling_used |-> FALSE,
   major_version      |-> 3,
   minor_version      |-> 2,
   dmi_version        |-> 0,
   uuid               |-> Uuid(1),
   raw_tables_data    |-> <<>>]

\* every Cpu that differs from c in one member
CpuEdits(c) ==
  {[c EXCEPT !.vendor = v] : v \in {<<71>>, <<71, 73, 78>>, <<65, 77>>}}
    \cup {[c EXCEPT !.version = v] : v \in {c.version + 1, c.version + 2 ^ 24}}
    \cup {[c EXCEPT !.brand_index = 1], [c EXCEPT !.clflush_line_size = 16]}
    \cup {[c EXCEPT !.logical_processors_count = v] :
            v \in {c.logical_processors_count + 1,
                   c.logical_processors_count + 2 ^ 8,
                   c.logical_processors_count + 2 ^ 16}}
    \cup {[c EXCEPT !.apic_id = 4]}
    \cup {[c EXCEPT !.extended_brand_string = v] : v \in {<<105>>, <<105, 57>>}}
    \cup {[c EXCEPT !.instruction_set.basic = 0 - 1]}
    \cup {[c EXCEPT !.instruction_set.modern = 2 ^ 30]}
    \cup {[c EXCEPT !.instruction_set.extended_modern[i] = 2 ^ 8] : i \in 1..3}

\* every SMBIOS that differs from m in one member other than the raw table
SmbiosEdits(m) ==
  {[m EXCEPT !.is_20_calling_used = TRUE],
   [m EXCEPT !.major_version = 2],
   [m EXCEPT !.minor_version = 8],
   [m EXCEPT !.dmi_version = 1],
   [m EXCEPT !.uuid[1] = 0],
   [m EXCEPT !.uuid[SMBIOS_uuid_length] = 0]}

\* the raw tables a snapshot carries: none, one byte, an end-of-table structure
RawSamples == {<<>>, <<0>>, Encode(Rec(127, <<>>, <<>>))}

RawEdits(m) == {[m EXCEPT !.raw_tables_data = r] : r \in RawSamples}

\* pairs of Motherboard values: equal, or different in one member
MotherboardPairs ==
  LET b == [cpu |-> BaseCpu, smbios |-> BaseSmbios]
  IN  {<<b, b>>}
        \cup {<<b, [b EXCEPT !.cpu = c]>> : c \in CpuEdits(b.cpu)}
        \cup {<<b, [b EXCEPT !.smbios = m]>> : m \in SmbiosEdits(b.smbios)}
        \cup {<<[b EXCEPT !.smbios = m1], [b EXCEPT !.smbios = m2]>> :
                m1 \in RawEdits(b.smbios), m2 \in RawEdits(b.smbios)}

Drive(bus, name, serial) == [bus_type |-> bus, device_name |-> name, serial |-> serial]

\* drives on fixed and on removable buses; two USB drives that differ in the
\* serial only
DriveLib ==
  { Drive("SATA", <<97>>, <<83, 49>>),
    Drive("NMVe", <<110>>, <<78, 50>>),
    Drive("USB", <<98>>, <<85, 51>>),
    Drive("USB", <<98>>, <<85, 52>>),
    Drive("Other", <<114>>, <<>>) }

IsInjective(f) == \A i, j \in DOMAIN f : f[i] = f[j] => i = j

\* the lists of up to MaxDrives different drives, in every order
DriveLists ==
  UNION {{l \in [1..k -> DriveLib] : IsInjective(l)} : k \in 0..MaxDrives}

\* the drives of a list that are on neither the USB nor the Other bus
RECURSIVE FixedDrives(_)
FixedDrives(drives) ==
  IF drives = <<>>
    THEN <<>>
    ELSE IF Head(drives).bus_type \in {"USB", "Other"}
           THEN FixedDrives(Tail(drives))
           ELSE <<Head(drives)>> \o FixedDrives(Tail(drives))

IsPermutation(d1, d2) ==
  /\ Len(d1) = Len(d2)
  /\ {d1[i] : i \in DOMAIN d1} = {d2[i] : i \in DOMAIN d2}

\* the drive list with the first character of the first drive's serial
\* handed over to the end of its device name
ShiftedDrives(drives) ==
  [drives EXCEPT ![1] = Drive(drives[1].bus_type,
                              Append(drives[1].device_name, Head(drives[1].serial)),
                              Tail(drives[1].serial))]

\* pairs of MotherboardEx values with the same cpu and smbios whose drive
\* lists are equal, reorderings of each other, equal in their fixed drives,
\* or different in where one drive's device name ends and its serial begins
MotherboardExPairs ==
  {<<[cpu |-> BaseCpu, smbios |-> BaseSmbios, drives |-> d1],
     [cpu |-> BaseCpu, smbios |-> BaseSmbios, drives |-> d2]>> :
     <<d1, d2>> \in {x \in DriveLists \X DriveLists :
                       \/ IsPermutation(x[1], x[2])
                       \/ FixedDrives(x[1]) = FixedDrives(x[2])}
                    \cup {<<d, ShiftedDrives(d)>> :
                            d \in {x \in DriveLists :
                                     x # <<>> /\ x[1].serial # <<>>}}}

InitFingerprint ==
  /\ IdleHandle
  /\ IdleSysfs
  /\ IdleSha
  /\ IdleSmbios
  /\ IdleVm
  /\ platform \in {"IDENTY_WIN32", "IDENTY_LINUX"}
  /\ crypt_fails \in
       (IF platform = "IDENTY_WIN32"
          THEN {"none"} \cup {CryptCalls[i] : i \in DOMAIN CryptCalls}
          ELSE {"none"})
  /\ fp_fn \in {"hash", "hash_ex"}
  /\ boards \in (IF fp_fn = "hash" THEN MotherboardPairs ELSE MotherboardExPairs)
  /\ fp = <<>>

\* hs::hash(const Motherboard&) with DefaultHash, on the next snapshot
HashMotherboard ==
  /\ fp_fn = "hash"
  /\ Len(fp) < Len(boards)
  /\ fp' = Append(fp, default_hash(boards[Len(fp) + 1], platform, crypt_fails))
  /\ UNCHANGED <<platform, crypt_fails, fp_fn, boards>>
  /\ UNCHANGED <<shaVars, smbiosVars, vmVars, rhVars, sysfsVars>>

\* hs::hash(const MotherboardEx&) with DefaultHashEx, on the next snapshot
HashMotherboardEx ==
  /\ fp_fn = "hash_ex"
  /\ Len(fp) < Len(boards)
  /\ fp' = Append(fp, default_hash_ex(boards[Len(fp) + 1], platform, crypt_fails))
  /\ UNCHANGED <<platform, crypt_fails, fp_fn, boards>>
  /\ UNCHANGED <<shaVars, smbiosVars, vmVars, rhVars, sysfsVars>>

NextFingerprint ==
  \/ HashMotherboard
  \/ HashMotherboardEx

SpecFingerprint == InitFingerprint /\ [][NextFingerprint]_vars

FingerprintTypeOK ==
  \A i \in DOMAIN fp :
    /\ Len(fp[i].digest) = digest_size
    /\ \A j \in DOMAIN fp[i].bytes : fp[i].bytes[j] \in 0..255
    /\ \A j \in DOMAIN fp[i].digest : fp[i].digest[j] \in 0..255

(***************************************************************************)
(* Properties of the fingerprint                                           *)
(***************************************************************************)
BothHashed(f) == fp_fn = f /\ Len(fp) = 2

SameButRaw(m1, m2) == [m1 EXCEPT !.raw_tables_data = <<>>] = [m2 EXCEPT !.raw_tables_data = <<>>]

\* C12: two Motherboard values that differ only in smbios.raw_tables_data
\* get the same serialized bytes and the same digest.
C12_RawTablesNotHashed ==
  (/\ BothHashed("hash")
   /\ boards[1].cpu = boards[2].cpu
   /\ SameButRaw(boards[1].smbios, boards[2].smbios))
    => fp[1] = fp[2]

SameBoard(b1, b2) == b1.cpu = b2.cpu /\ b1.smbios = b2.smbios

\* C13: two MotherboardEx values that differ only in drives on the USB or
\* Other bus (added, removed or changed) get the same serialized bytes and
\* the same digest.
C13_RemovableDrivesNotHashed ==
  (/\ BothHashed("hash_ex")
   /\ SameBoard(boards[1], boards[2])
   /\ FixedDrives(boards[1].drives) = FixedDrives(boards[2].drives))
    => fp[1] = fp[2]

\* C14: two MotherboardEx values whose drive lists are reorderings of each
\* other get the same serialized bytes and the same digest.
C14_DriveOrderNotHashed ==
  (/\ BothHashed("hash_ex")
   /\ SameBoard(boards[1], boards[2])
   /\ IsPermutation(boards[1].drives, boards[2].drives))
    => fp[1] = fp[2]

\* C29: serialize_motherboard_ex tells drive lists apart: two MotherboardEx
\* values with equal cpu and smbios whose drive lists differ as sequences of
\* (bus_type, device_name, serial) serialize to different bytes, and one with
\* no drive serializes to the bytes serialize_motherboard gives for its cpu
\* and smbios.
C29_ExSerializationInjective ==
  (BothHashed("hash_ex") /\ platform = "IDENTY_WIN32") =>
    /\ (SameBoard(boards[1], boards[2]) /\ boards[1].drives # boards[2].drives)
         => fp[1].bytes # fp[2].bytes
    /\ \A i \in 1..2 :
         boards[i].drives = <<>> =>
           fp[i].bytes = serialize_motherboard([cpu    |-> boards[i].cpu,
                                                smbios |-> boards[i].smbios])

\* the hashed fields of a Motherboard, one entry each, every UUID byte its own
HashedFields(b) ==
  << b.cpu.vendor, b.cpu.version, b.cpu.brand_index, b.cpu.clflush_line_size,
     b.cpu.logical_processors_count, b.cpu.extended_brand_string,
     b.cpu.instruction_set.basic, b.cpu.instruction_set.modern,
     b.cpu.instruction_set.extended_modern[1],
     b.cpu.instruction_set.extended_modern[2],
     b.cpu.instruction_set.extended_modern[3],
     b.smbios.is_20_calling_used, b.smbios.major_version,
     b.smbios.minor_version, b.smbios.dmi_version >> \o b.smbios.uuid

DiffersInOneHashedField(b1, b2) ==
  /\ b1.cpu.apic_id = b2.cpu.apic_id
  /\ b1.smbios.raw_tables_data = b2.smbios.raw_tables_data
  /\ Cardinality({i \in DOMAIN HashedFields(b1) :
                    HashedFields(b1)[i] # HashedFields(b2)[i]}) = 1

\* C15: two Motherboard values that differ in exactly one hashed field are
\* serialized to different byte sequences.
C15_EveryHashedFieldCounts ==
  (/\ BothHashed("hash")
   /\ platform = "IDENTY_WIN32"
   /\ DiffersInOneHashedField(boards[1], boards[2]))
    => fp[1].bytes # fp[2].bytes

\* C16: hs::hash never returns 32 zero bytes, on any build and whatever the
\* hash provider reports.
C16_HashNeverZero ==
  \A i \in DOMAIN fp : fp[i].digest # ZeroHash

(***************************************************************************)
(* VM heuristic: flag strengths and confidence (Identy_vm.cxx)             *)
(***************************************************************************)
\* the flags named in get_flag_strength
VMFlags ==
  { "Cpu_Hypervisor_bit", "Cpu_Hypervisor_signature",
    "SMBIOS_SuspiciousManufacturer", "SMBIOS_SuspiciousUUID",
    "SMBIOS_UUIDTotallyZeroed", "Storage_SuspiciousSerial",
    "Storage_BusTypeIsVirtual", "Storage_BusTypeUncommon",
    "Storage_ProductIdKnownVM", "Storage_AllDrivesBusesVirtual",
    "Storage_AllDrivesVendorProductKnownVM", "Platform_WindowsRegistry",
    "Platform_LinuxDevices", "Platform_VirtualNetworkAdaptersPresent",
    "Platform_OnlyVirtualNetworkAdapters",
    "Platform_AccessToNetworkDevicesDenied", "Platform_HyperVIsolation" }

\* get_flag_strength with Platform_OnlyVirtualNetworkAdapters in the Strong
\* group
get_flag_strength_only_virtual_strong(flag) ==
  CASE flag \in {"Platform_HyperVIsolation",
                 "Platform_VirtualNetworkAdaptersPresent"} -> "Weak"
    [] flag \in {"SMBIOS_SuspiciousUUID", "Storage_BusTypeUncommon"} -> "Medium"
    [] flag \in {"Cpu_Hypervisor_bit", "Cpu_Hypervisor_signature",
                 "Storage_BusTypeIsVirtual", "Storage_ProductIdKnownVM",
                 "SMBIOS_SuspiciousManufacturer",
                 "Platform_OnlyVirtualNetworkAdapters"} -> "Strong"
    [] flag \in {"SMBIOS_UUIDTotallyZeroed", "Storage_AllDrivesBusesVirtual",
                 "Storage_AllDrivesVendorProductKnownVM"} -> "Critical"
    [] flag \in {"Storage_SuspiciousSerial", "Platform_WindowsRegistry",
                 "Platform_LinuxDevices",
                 "Platform_AccessToNetworkDevicesDenied"} -> "Medium"
    [] OTHER -> "Weak"

\* get_flag_strength: the switch, case group by case group
get_flag_strength(flag) ==
  CASE flag \in {"Platform_HyperVIsolation",
                 "Platform_VirtualNetworkAdaptersPresent"} -> "Weak"
    [] flag \in {"SMBIOS_SuspiciousUUID", "Platform_OnlyVirtualNetworkAdapters",
                 "Storage_BusTypeUncommon"} -> "Medium"
    [] flag \in {"Cpu_Hypervisor_bit", "Cpu_Hypervisor_signature",
                 "Storage_BusTypeIsVirtual", "Storage_ProductIdKnownVM",
                 "SMBIOS_SuspiciousManufacturer"} -> "Strong"
    [] flag \in {"SMBIOS_UUIDTotallyZeroed", "Storage_AllDrivesBusesVirtual",
                 "Storage_AllDrivesVendorProductKnownVM"} -> "Critical"
    [] flag \in {"Storage_SuspiciousSerial", "Platform_WindowsRegistry",
                 "Platform_LinuxDevices",
                 "Platform_AccessToNetworkDevicesDenied"} -> "Medium"
    [] OTHER -> "Weak"

\* enum class VMConfidence, by enumerator value
VMConfidence == [Unlikely |-> 0, Possible |-> 1, Probable |-> 2, DefinitelyVM |-> 3]

\* the loop of calculate_confidence: weak, medium, strong, critical after
\* the flags of detections were counted on top of counted
RECURSIVE count_strengths(_, _)
count_strengths(detections, counted) ==
  IF detections = <<>>
    THEN counted
    ELSE count_strengths(Tail(detections),
           CASE get_flag_strength(Head(detections)) = "Weak" ->
                  [counted EXCEPT !.weak = @ + 1]
             [] get_flag_strength(Head(detections)) = "Medium" ->
                  [counted EXCEPT !.medium = @ + 1]
             [] get_flag_strength(Head(detections)) = "Strong" ->
                  [counted EXCEPT !.strong = @ + 1]
             [] get_flag_strength(Head(detections)) = "Critical" ->
                  [counted EXCEPT !.critical = TRUE])

\* calculate_confidence with "medium >= 3" written as "medium > 3"
calculate_confidence_medium_off_by_one(detections) ==
  LET n == count_strengths(detections,
             [weak |-> 0, medium |-> 0, strong |-> 0, critical |-> FALSE])
  IN  IF n.critical THEN "DefinitelyVM"
      ELSE IF n.strong >= 2 THEN "DefinitelyVM"
      ELSE IF n.strong >= 1 \/ n.medium > 3 THEN "Probable"
      ELSE IF n.medium >= 1 \/ n.weak >= 2 THEN "Possible"
      ELSE "Unlikely"

\* calculate_confidence with "weak >= 2" written as "weak == 2"
calculate_confidence_weak_exactly_two(detections) ==
  LET n == count_strengths(detections,
             [weak |-> 0, medium |-> 0, strong |-> 0, critical |-> FALSE])
  IN  IF n.critical THEN "DefinitelyVM"
      ELSE IF n.strong >= 2 THEN "DefinitelyVM"
      ELSE IF n.strong >= 1 \/ n.medium >= 3 THEN "Probable"
      ELSE IF n.medium >= 1 \/ n.weak = 2 THEN "Possible"
      ELSE "Unlikely"

\* calculate_confidence
calculate_confidence(detections) ==
  LET n == count_strengths(detections,
             [weak |-> 0, medium |-> 0, strong |-> 0, critical |-> FALSE])
  IN  IF n.critical THEN "DefinitelyVM"
      ELSE IF n.strong >= 2 THEN "DefinitelyVM"
      ELSE IF n.strong >= 1 \/ n.medium >= 3 THEN "Probable"
      ELSE IF n.medium >= 1 \/ n.weak >= 2 THEN "Possible"
      ELSE "Unlikely"

\* HeuristicVerdict::is_virtual
is_virtual(v) == VMConfidence[v.confidence] >= VMConfidence["Probable"]

(***************************************************************************)
(* calculate_confidence applied to detection lists                         *)
(***************************************************************************)
MaxDetections == 4

\* two flags of each strength, the Medium ones from both case groups
DetectionFlags ==
  { "Platform_HyperVIsolation", "Platform_VirtualNetworkAdaptersPresent",
    "SMBIOS_SuspiciousUUID", "Storage_SuspiciousSerial",
    "Cpu_Hypervisor_bit", "Storage_ProductIdKnownVM",
    "SMBIOS_UUIDTotallyZeroed", "Storage_AllDrivesBusesVirtual" }

DetectionLists == UNION {[1..k -> DetectionFlags] : k \in 0..MaxDetections}

InitConfidence ==
  /\ IdleHandle
  /\ IdleSysfs
  /\ IdleSha
  /\ IdleSmbios
  /\ IdleFingerprint
  /\ vm_fn = "calculate_confidence"
  /\ snapshot = <<>>
  /\ verdict \in {[HeuristicVerdict EXCEPT !.detections = d] : d \in DetectionLists}
  /\ vm_pc = "call"
  /\ adapters_seen = <<>>
  /\ earlier = <<>>

\* verdict.confidence = detail::calculate_confidence(verdict.detections)
CalculateConfidence ==
  /\ vm_fn = "calculate_confidence"
  /\ vm_pc = "call"
  /\ verdict' = [verdict EXCEPT !.confidence = calculate_confidence(verdict.detections)]
  /\ vm_pc' = "return"
  /\ UNCHANGED <<vm_fn, snapshot, adapters_seen, earlier>>
  /\ UNCHANGED <<shaVars, smbiosVars, fpVars, rhVars, sysfsVars>>

NextConfidence == CalculateConfidence

SpecConfidence == InitConfidence /\ [][NextConfidence]_vars

(***************************************************************************)
(* Properties of calculate_confidence                                      *)
(***************************************************************************)
ConfidenceReturned == vm_fn = "calculate_confidence" /\ vm_pc = "return"

\* the number of flags of strength s in a detection list
CountOf(detections, s) ==
  Cardinality({i \in DOMAIN detections : get_flag_strength(detections[i]) = s})

\* the aggregation rule, on the counts w, m, s and the Critical indicator c
Aggregate(w, m, s, c) ==
  IF c \/ s >= 2 THEN "DefinitelyVM"
  ELSE IF s >= 1 \/ m >= 3 THEN "Probable"
  ELSE IF m >= 1 \/ w >= 2 THEN "Possible"
  ELSE "Unlikely"

\* detections with the entries at i and i + 1 exchanged
SwapAt(detections, i) ==
  [detections EXCEPT ![i] = detections[i + 1], ![i + 1] = detections[i]]

\* C17: calculate_confidence is the aggregation rule applied to the counts of
\* Weak, Medium and Strong flags and to the presence of a Critical flag, so
\* reordering the detections does not change it.
C17_ConfidenceFromCounts ==
  ConfidenceReturned =>
    /\ verdict.confidence =
         Aggregate(CountOf(verdict.detections, "Weak"),
                   CountOf(verdict.detections, "Medium"),
                   CountOf(verdict.detections, "Strong"),
                   CountOf(verdict.detections, "Critical") > 0)
    /\ \A i \in 1..(Len(verdict.detections) - 1) :
         calculate_confidence(SwapAt(verdict.detections, i)) = verdict.confidence

\* three Medium flags and one Weak flag give Probable
C17_Witness ==
  /\ ConfidenceReturned
  /\ CountOf(verdict.detections, "Medium") = 3
  /\ CountOf(verdict.detections, "Weak") = 1
  /\ verdict.confidence = "Probable"

\* C18: with no Critical flag one more Weak, Medium or Strong flag never
\* lowers the confidence, and with a Critical flag it is DefinitelyVM.
C18_ConfidenceMonotone ==
  ConfidenceReturned =>
    /\ \A f \in DetectionFlags :
         get_flag_strength(f) # "Critical" =>
           VMConfidence[calculate_confidence(Append(verdict.detections, f))]
             >= VMConfidence[verdict.confidence]
    /\ CountOf(verdict.detections, "Critical") > 0 =>
         verdict.confidence = "DefinitelyVM"

\* two Weak flags give Possible and a third one does not lower it
C18_Witness ==
  /\ ConfidenceReturned
  /\ verdict.detections =
       <<"Platform_HyperVIsolation", "Platform_VirtualNetworkAdaptersPresent">>
  /\ verdict.confidence = "Possible"
  /\ calculate_confidence(Append(verdict.detections, "Platform_HyperVIsolation"))
       = "Possible"

(***************************************************************************)
(* VM heuristic: the checks (Identy_vm.cxx)                                *)
(*                                                                         *)
(* Strings are sequences of bytes.  A check returns the flags it pushes,   *)
(* in the order pushed.                                                    *)
(***************************************************************************)
\* "Microsoft Hv"
microsoft_hyperv_sig == <<77, 105, 99, 114, 111, 115, 111, 102, 116, 32, 72, 118>>

\* known_hypervisor_signatures: "KVM", "KVMKVMKVM", "VMwareVMware",
\* "VBoxVBoxVBox", "TCGTCGTCG", "ACRNACRN", "bhyve bhyve", "Xen",
\* "Microsoft Hv"
known_hypervisor_signatures ==
  << <<75, 86, 77>>,
     <<75, 86, 77, 75, 86, 77, 75, 86, 77>>,
     <<86, 77, 119, 97, 114, 101, 86, 77, 119, 97, 114, 101>>,
     <<86, 66, 111, 120, 86, 66, 111, 120, 86, 66, 111, 120>>,
     <<84, 67, 71, 84, 67, 71, 84, 67, 71>>,
     <<65, 67, 82, 78, 65, 67, 82, 78>>,
     <<98, 104, 121, 118, 101, 32, 98, 104, 121, 118, 101>>,
     <<88, 101, 110>>,
     <<77, 105, 99, 114, 111, 115, 111, 102, 116, 32, 72, 118>> >>

\* known_vm_manufacturers: "innotek GmbH", "Oracle", "VMware, Inc.",
\* "QEMU", "Xen", "Microsoft Corporation", "Parallels"
known_vm_manufacturers ==
  << <<105, 110, 110, 111, 116, 101, 107, 32, 71, 109, 98, 72>>,
     <<79, 114, 97, 99, 108, 101>>,
     <<86, 77, 119, 97, 114, 101, 44, 32, 73, 110, 99, 46>>,
     <<81, 69, 77, 85>>,
     <<88, 101, 110>>,
     <<77, 105, 99, 114, 111, 115, 111, 102, 116, 32, 67, 111, 114, 112, 111, 114, 97, 116, 105, 111, 110>>,
     <<80, 97, 114, 97, 108, 108, 101, 108, 115>> >>

\* known_vm_network_adapters: "vmware", "vmxnet", "vmnet", "virtualbox",
\* "vbox", "hyper-v", "microsoft hyper-v", "virtio", "red hat virtio",
\* "xennet", "xen", "parallels"
known_vm_network_adapters ==
  << <<118, 109, 119, 97, 114, 101>>,
     <<118, 109, 120, 110, 101, 116>>,
     <<118, 109, 110, 101, 116>>,
     <<118, 105, 114, 116, 117, 97, 108, 98, 111, 120>>,
     <<118, 98, 111, 120>>,
     <<104, 121, 112, 101, 114, 45, 118>>,
     <<109, 105, 99, 114, 111, 115, 111, 102, 116, 32, 104, 121, 112, 101, 114, 45, 118>>,
     <<118, 105, 114, 116, 105, 111>>,
     <<114, 101, 100, 32, 104, 97, 116, 32, 118, 105, 114, 116, 105, 111>>,
     <<120, 101, 110, 110, 101, 116>>,
     <<120, 101, 110>>,
     <<112, 97, 114, 97, 108, 108, 101, 108, 115>> >>

\* known_vm_drives_products: "VBOX", "VMWARE", "QEMU", "VIRTUAL", "XEN",
\* "KVM", "RED HAT", "VIRTIO", "MSFT", "MICROSOFT VIRTUAL"
known_vm_drives_products ==
  << <<86, 66, 79, 88>>,
     <<86, 77, 87, 65, 82, 69>>,
     <<81, 69, 77, 85>>,
     <<86, 73, 82, 84, 85, 65, 76>>,
     <<88, 69, 78>>,
     <<75, 86, 77>>,
     <<82, 69, 68, 32, 72, 65, 84>>,
     <<86, 73, 82, 84, 73, 79>>,
     <<77, 83, 70, 84>>,
     <<77, 73, 67, 82, 79, 83, 79, 70, 84, 32, 86, 73, 82, 84, 85, 65, 76>> >>

suspiciuos_buses == {"SAS", "Scsi", "ATA"}

\* the elements of a sequence
Range(q) == {q[i] : i \in DOMAIN q}

\* std::string::find(sub) != npos
Contains(string, sub) ==
  \E i \in 1..(Len(string) - Len(sub) + 1) :
    SubSeq(string, i, i + Len(sub) - 1) = sub

\* ctolower
ctolower(c) == IF c >= 65 /\ c <= 90 THEN c + 32 ELSE c

\* char_equal_icase
char_equal_icase(a, b) == ctolower(a) = ctolower(b)

\* contains_icase: std::search with char_equal_icase
contains_icase(string, substring) ==
  IF substring = <<>> THEN TRUE
  ELSE IF Len(substring) > Len(string) THEN FALSE
  ELSE \E i \in 1..(Len(string) - Len(substring) + 1) :
         \A j \in 1..Len(substring) :
           char_equal_icase(string[i + j - 1], substring[j])

\* get_smbios_manufacturer: the while loop from offset begin on, then
\* std::string(manufacturer).  mem is the vector followed by the readable
\* bytes behind it, n the size of the vector; fault when a read leaves mem
RECURSIVE get_smbios_manufacturer_from(_, _, _, _)
get_smbios_manufacturer_from(mem, n, begin, view) ==
  IF ~(begin < n)
    THEN [fault |-> FALSE, str |-> view]
    ELSE With(get_smbios_manufacturer_pass(mem, n, begin, view), LAMBDA r :
           CASE r.kind = "continue" -> get_smbios_manufacturer_from(mem, n, r.begin, r.view)
             [] r.kind = "fault" -> [fault |-> TRUE, str |-> <<>>]
             [] OTHER -> [fault |-> FALSE, str |-> r.view])

get_smbios_manufacturer(smbios) ==
  get_smbios_manufacturer_from(smbios.raw_tables_data \o smbios.beyond,
                               Len(smbios.raw_tables_data), 0, <<>>)

\* std::ranges::any_of(known_vm_manufacturers, ... manufacturer.find(man) != npos)
is_known_manufacturer(name) ==
  \E man \in Range(known_vm_manufacturers) : Contains(name, man)

\* is_hvci
is_hvci(cpu, smbios) ==
  IF ~cpu.hypervisor_bit THEN FALSE
  ELSE IF cpu.hypervisor_signature # microsoft_hyperv_sig THEN FALSE
  ELSE IF is_known_manufacturer(get_smbios_manufacturer(smbios).str) THEN FALSE
  ELSE TRUE

\* check_smbios with the memcmp over the first byte of the UUID only
check_smbios_first_byte(smbios) ==
  (IF is_known_manufacturer(get_smbios_manufacturer(smbios).str)
     THEN <<"SMBIOS_SuspiciousManufacturer">>
     ELSE <<>>)
    \o (IF smbios.uuid[1] = 0
          THEN <<"SMBIOS_SuspiciousUUID", "SMBIOS_UUIDTotallyZeroed">>
          ELSE <<>>)

\* check_smbios
check_smbios(smbios) ==
  (IF is_known_manufacturer(get_smbios_manufacturer(smbios).str)
     THEN <<"SMBIOS_SuspiciousManufacturer">>
     ELSE <<>>)
    \o (IF smbios.uuid = ZeroUuid
          THEN <<"SMBIOS_SuspiciousUUID", "SMBIOS_UUIDTotallyZeroed">>
          ELSE <<>>)

\* the adapter description matches a known virtual adapter
is_virtual_adapter(adapter) ==
  \E key \in Range(known_vm_network_adapters) :
    contains_icase(adapter.description, key)

\* check_network_adapters with loopback and tunnel adapters left out of
\* total_adapters_count before the description is looked at
check_network_adapters_total_skips_tunnels(net) ==
  IF net.access_denied
    THEN <<"Platform_AccessToNetworkDevicesDenied">>
    ELSE
      LET adapters == net.adapters
          virtual_adapters_count ==
            Cardinality({i \in DOMAIN adapters : is_virtual_adapter(adapters[i])})
          total_adapters_count ==
            Cardinality({i \in DOMAIN adapters :
                           ~adapters[i].is_loopback /\ ~adapters[i].is_tunnel})
      IN  (IF virtual_adapters_count > 0
             THEN <<"Platform_VirtualNetworkAdaptersPresent">>
             ELSE <<>>)
            \o (IF virtual_adapters_count = total_adapters_count
                     /\ total_adapters_count > 0
                  THEN <<"Platform_OnlyVirtualNetworkAdapters">>
                  ELSE <<>>)

\* check_network_adapters, net being what list_network_adapters reports
check_network_adapters(net) ==
  IF net.access_denied
    THEN <<"Platform_AccessToNetworkDevicesDenied">>
    ELSE
      LET adapters == net.adapters
          virtual_adapters_count ==
            Cardinality({i \in DOMAIN adapters : is_virtual_adapter(adapters[i])})
          total_adapters_count ==
            Cardinality({i \in DOMAIN adapters :
                           \/ is_virtual_adapter(adapters[i])
                           \/ (~adapters[i].is_loopback /\ ~adapters[i].is_tunnel)})
      IN  (IF virtual_adapters_count > 0
             THEN <<"Platform_VirtualNetworkAdaptersPresent">>
             ELSE <<>>)
            \o (IF virtual_adapters_count = total_adapters_count
                     /\ total_adapters_count > 0
                  THEN <<"Platform_OnlyVirtualNetworkAdapters">>
                  ELSE <<>>)

\* check_drive: whether the product is a known VM product (the counter is
\* incremented then)
is_known_vm_product(drive) ==
  \E product \in Range(known_vm_drives_products) :
    contains_icase(drive.vendor_id \o <<32>> \o drive.product_id, product)

\* check_drive: the flags pushed for one drive
check_drive(drive) ==
  (IF is_known_vm_product(drive) THEN <<"Storage_ProductIdKnownVM">> ELSE <<>>)
    \o (IF drive.bus_type = "Virtual" THEN <<"Storage_BusTypeIsVirtual">> ELSE <<>>)
    \o (IF drive.serial = <<>>
             \/ \A i \in DOMAIN drive.serial : drive.serial[i] = drive.serial[1]
          THEN <<"Storage_SuspiciousSerial">>
          ELSE <<>>)
    \o (IF drive.bus_type \in suspiciuos_buses
          THEN <<"Storage_BusTypeUncommon">>
          ELSE <<>>)

\* check_mb_common with the CPU flags pushed whether or not is_hvci holds
check_mb_common_no_else(mb, net) ==
  (IF is_hvci(mb.cpu, mb.smbios) THEN <<"Platform_HyperVIsolation">> ELSE <<>>)
    \o (IF mb.cpu.hypervisor_bit THEN <<"Cpu_Hypervisor_bit">> ELSE <<>>)
    \o (IF \E sig \in Range(known_hypervisor_signatures) :
             Contains(mb.cpu.hypervisor_signature, sig)
          THEN <<"Cpu_Hypervisor_signature">>
          ELSE <<>>)
    \o check_smbios(mb.smbios)
    \o check_network_adapters(net)

\* check_mb_common: verdict.detections
check_mb_common(mb, net) ==
  (IF is_hvci(mb.cpu, mb.smbios)
     THEN <<"Platform_HyperVIsolation">>
     ELSE (IF mb.cpu.hypervisor_bit THEN <<"Cpu_Hypervisor_bit">> ELSE <<>>)
            \o (IF \E sig \in Range(known_hypervisor_signatures) :
                     Contains(mb.cpu.hypervisor_signature, sig)
                  THEN <<"Cpu_Hypervisor_signature">>
                  ELSE <<>>))
    \o check_smbios(mb.smbios)
    \o check_network_adapters(net)

\* DefaultHeuristic::operator()
DefaultHeuristic(mb, net) ==
  With(check_mb_common(mb, net), LAMBDA detections :
    [detections |-> detections,
     confidence |-> calculate_confidence(detections)])

\* the loop "for(auto& disk : mb.drives) check_drive(...)"
RECURSIVE check_drives(_)
check_drives(drives) ==
  IF drives = <<>>
    THEN <<>>
    ELSE check_drive(Head(drives)) \o check_drives(Tail(drives))

\* the flags DefaultHeuristicEx pushes after check_mb_common
drive_detections(drives) ==
  LET product_vm_count ==
        Cardinality({i \in DOMAIN drives : is_known_vm_product(drives[i])})
      virtual_buses ==
        Cardinality({i \in DOMAIN drives : drives[i].bus_type = "Virtual"})
  IN  check_drives(drives)
        \o (IF drives # <<>> /\ virtual_buses = Len(drives)
              THEN <<"Storage_AllDrivesBusesVirtual">>
              ELSE <<>>)
        \o (IF drives # <<>> /\ product_vm_count = Len(drives)
              THEN <<"Storage_AllDrivesVendorProductKnownVM">>
              ELSE <<>>)

\* DefaultHeuristicEx::operator() with the confidence calculated before the
\* drive checks
DefaultHeuristicEx_confidence_too_early(mb, net) ==
  With(check_mb_common(mb, net), LAMBDA detections :
    [detections |-> detections \o drive_detections(mb.drives),
     confidence |-> calculate_confidence(detections)])

\* DefaultHeuristicEx::operator()
DefaultHeuristicEx(mb, net) ==
  With(check_mb_common(mb, net) \o drive_detections(mb.drives), LAMBDA detections :
    [detections |-> detections,
     confidence |-> calculate_confidence(detections)])

(***************************************************************************)
(* Snapshots the heuristics are run on                                     *)
(***************************************************************************)
\* CPUID signatures: none, "Microsoft Hv", "KVMKVMKVM", "XenVMMXenVMM",
\* "GenuineIntel"
SignatureSamples ==
  { <<>>,
    microsoft_hyperv_sig,
    <<75, 86, 77, 75, 86, 77, 75, 86, 77>>,
    <<88, 101, 110, 86, 77, 77, 88, 101, 110, 86, 77, 77>>,
    <<71, 101, 110, 117, 105, 110, 101, 73, 110, 116, 101, 108>> }

\* manufacturer strings: "Dell", "QEMU", "Microsoft Corporation"
ManufacturerSamples ==
  { <<68, 101, 108, 108>>,
    <<81, 69, 77, 85>>,
    known_vm_manufacturers[6] }

\* raw tables: none, one System Information structure per manufacturer, and
\* a table of one byte with the bytes that follow it in memory
SmbiosTableSamples ==
  {[raw_tables_data |-> <<>>, beyond |-> <<>>]}
    \cup {[raw_tables_data |-> EncodeTable(<<Sys(1, 1, <<>>, <<m>>)>>),
           beyond |-> <<>>] : m \in ManufacturerSamples}
    \cup {[raw_tables_data |-> <<SMBIOS_type_system_manufacturer>>, beyond |-> b] :
            b \in {<<>>, <<5, 0, 0, 1, 81, 69, 77, 85, 0, 0>>}}

Adapter(description, is_loopback, is_tunnel) ==
  [description |-> description, is_loopback |-> is_loopback, is_tunnel |-> is_tunnel]

\* "Intel(R) I219"
IntelAdapter == Adapter(<<73, 110, 116, 101, 108, 40, 82, 41, 32, 73, 50, 49, 57>>, FALSE, FALSE)

\* "Red Hat VirtIO"
VirtioAdapter == Adapter(<<82, 101, 100, 32, 72, 97, 116, 32, 86, 105, 114, 116, 73, 79>>, FALSE, FALSE)

\* "lo", loopback
LoopbackAdapter == Adapter(<<108, 111>>, TRUE, FALSE)

\* "vmnet8", tunnel
TunnelVmnetAdapter == Adapter(<<118, 109, 110, 101, 116, 56>>, FALSE, TRUE)

\* what list_network_adapters reports: access denied, or a list of adapters
NetworkOutcomes ==
  {[access_denied |-> TRUE, adapters |-> <<>>]}
    \cup {[access_denied |-> FALSE, adapters |-> a] :
            a \in { <<>>,
                    <<IntelAdapter>>,
                    <<LoopbackAdapter>>,
                    <<VirtioAdapter>>,
                    <<VirtioAdapter, LoopbackAdapter>>,
                    <<IntelAdapter, VirtioAdapter>>,
                    <<TunnelVmnetAdapter, IntelAdapter>>,
                    <<TunnelVmnetAdapter>>,
                    <<TunnelVmnetAdapter, LoopbackAdapter>> }}

VmDrive(bus, vendor, product, serial) ==
  [bus_type |-> bus, vendor_id |-> vendor, product_id |-> product, serial |-> serial]

\* SATA "WDC" "WD10" serial "W7"; Virtual "Msft" "Virtual Disk" no serial;
\* SAS "QEMU" "HD" serial "00"
VmDriveLib ==
  { VmDrive("SATA", <<87, 68, 67>>, <<87, 68, 49, 48>>, <<87, 55>>),
    VmDrive("Virtual", <<77, 115, 102, 116>>,
            <<86, 105, 114, 116, 117, 97, 108, 32, 68, 105, 115, 107>>, <<>>),
    VmDrive("SAS", <<81, 69, 77, 85>>, <<72, 68>>, <<48, 48>>) }

VmDriveLists == UNION {[1..k -> VmDriveLib] : k \in 0..MaxDrives}

\* a UUID whose only non-zero byte is the last one
LastByteUuid == [i \in 1..SMBIOS_uuid_length |-> IF i = SMBIOS_uuid_length THEN 1 ELSE 0]

\* the snapshots: hypervisor bit and signature, UUID, raw table, drives
Snapshots(drive_lists) ==
  {[cpu    |-> [hypervisor_bit |-> b, hypervisor_signature |-> sig],
    smbios |-> [uuid |-> u, raw_tables_data |-> t.raw_tables_data, beyond |-> t.beyond],
    drives |-> d] :
     b \in BOOLEAN, sig \in SignatureSamples, u \in {ZeroUuid, Uuid(1), LastByteUuid},
     t \in SmbiosTableSamples, d \in drive_lists}

InitVm ==
  /\ IdleHandle
  /\ IdleSysfs
  /\ IdleSha
  /\ IdleSmbios
  /\ IdleFingerprint
  /\ vm_fn \in {"DefaultHeuristic", "DefaultHeuristicEx"}
  /\ snapshot \in (IF vm_fn = "DefaultHeuristic"
                     THEN Snapshots({<<>>})
                     ELSE Snapshots(VmDriveLists))
  /\ verdict = HeuristicVerdict
  /\ vm_pc = "call"
  /\ adapters_seen = <<>>
  /\ earlier = <<>>

\* a read of get_smbios_manufacturer left the mapped memory: the process ends
ManufacturerFault ==
  /\ get_smbios_manufacturer(snapshot.smbios).fault
  /\ vm_pc' = "fault"
  /\ UNCHANGED <<verdict, adapters_seen>>

\* analyze_full(const Motherboard&) with DefaultHeuristic
AnalyzeFull ==
  /\ vm_fn = "DefaultHeuristic"
  /\ vm_pc = "call"
  /\ \/ ManufacturerFault
     \/ /\ ~get_smbios_manufacturer(snapshot.smbios).fault
        /\ \E reported \in NetworkOutcomes :
             /\ adapters_seen' = reported
             /\ verdict' = DefaultHeuristic(snapshot, reported)
        /\ vm_pc' = "return"
  /\ UNCHANGED <<vm_fn, snapshot, earlier>>
  /\ UNCHANGED <<shaVars, smbiosVars, fpVars, rhVars, sysfsVars>>

\* analyze_full(const MotherboardEx&) with DefaultHeuristicEx
AnalyzeFullEx ==
  /\ vm_fn = "DefaultHeuristicEx"
  /\ vm_pc = "call"
  /\ \/ ManufacturerFault
     \/ /\ ~get_smbios_manufacturer(snapshot.smbios).fault
        /\ \E reported \in NetworkOutcomes :
             /\ adapters_seen' = reported
             /\ verdict' = DefaultHeuristicEx(snapshot, reported)
        /\ vm_pc' = "return"
  /\ UNCHANGED <<vm_fn, snapshot, earlier>>
  /\ UNCHANGED <<shaVars, smbiosVars, fpVars, rhVars, sysfsVars>>

NextVm ==
  \/ AnalyzeFull
  \/ AnalyzeFullEx

SpecVm == InitVm /\ [][NextVm]_vars

\* the snapshots analysed more than once: a MotherboardEx, whose cpu and
\* smbios are the Motherboard handed to the basic analysis
RepeatSnapshots ==
  {s \in Snapshots(VmDriveLists) :
     /\ s.cpu.hypervisor_signature \in {<<>>, microsoft_hyperv_sig}
     /\ s.smbios.uuid = Uuid(1)
     /\ Len(s.drives) <= 1}

InitVmTwice ==
  /\ IdleHandle
  /\ IdleSysfs
  /\ IdleSha
  /\ IdleSmbios
  /\ IdleFingerprint
  /\ vm_fn \in {"DefaultHeuristic", "DefaultHeuristicEx"}
  /\ snapshot \in RepeatSnapshots
  /\ verdict = HeuristicVerdict
  /\ vm_pc = "call"
  /\ adapters_seen = <<>>
  /\ earlier = <<>>

\* the caller keeps the verdict and calls analyze_full again, with the same
\* snapshot object (its Motherboard part for the basic analysis)
CallAgain ==
  /\ vm_pc = "return"
  /\ earlier = <<>>
  /\ earlier' = <<[fn |-> vm_fn, seen |-> adapters_seen, verdict |-> verdict]>>
  /\ vm_fn' \in {"DefaultHeuristic", "DefaultHeuristicEx"}
  /\ verdict' = HeuristicVerdict
  /\ adapters_seen' = <<>>
  /\ vm_pc' = "call"
  /\ UNCHANGED snapshot
  /\ UNCHANGED <<shaVars, smbiosVars, fpVars, rhVars, sysfsVars>>

NextVmTwice ==
  \/ AnalyzeFull
  \/ AnalyzeFullEx
  \/ CallAgain

SpecVmTwice == InitVmTwice /\ [][NextVmTwice]_vars

VmTypeOK ==
  /\ verdict.confidence \in DOMAIN VMConfidence
  /\ Range(verdict.detections) \subseteq VMFlags

(***************************************************************************)
(* Properties of the verdict                                               *)
(***************************************************************************)
VerdictReturned == vm_fn \in {"DefaultHeuristic", "DefaultHeuristicEx"} /\ vm_pc = "return"

\* C19: the verdict of DefaultHeuristic and DefaultHeuristicEx has the
\* confidence calculate_confidence gives for its own detections (Unlikely
\* for none, and never DefinitelyVM for none), and is_virtual() holds
\* exactly when the confidence is Probable or DefinitelyVM.
C19_VerdictConsistent ==
  VerdictReturned =>
    /\ verdict.confidence = calculate_confidence(verdict.detections)
    /\ verdict.detections = <<>> => verdict.confidence = "Unlikely"
    /\ verdict.confidence = "DefinitelyVM" => verdict.detections # <<>>
    /\ is_virtual(verdict) <=> verdict.confidence \in {"Probable", "DefinitelyVM"}

\* an extended verdict that only the drive checks make DefinitelyVM
C19_Witness ==
  /\ VerdictReturned
  /\ vm_fn = "DefaultHeuristicEx"
  /\ calculate_confidence(check_mb_common(snapshot, adapters_seen)) = "Unlikely"
  /\ verdict.confidence = "DefinitelyVM"
  /\ is_virtual(verdict)

Detected(flag) == flag \in Range(verdict.detections)

\* C20: Platform_HyperVIsolation is in the verdict exactly when the
\* hypervisor bit is set, the signature equals "Microsoft Hv" and the SMBIOS
\* manufacturer contains no known VM vendor, and then neither
\* Cpu_Hypervisor_bit nor Cpu_Hypervisor_signature is in it.
C20_HyperVIsolationSuppressesCpuFlags ==
  VerdictReturned =>
    /\ Detected("Platform_HyperVIsolation") <=>
         /\ snapshot.cpu.hypervisor_bit
         /\ snapshot.cpu.hypervisor_signature = microsoft_hyperv_sig
         /\ \A i \in DOMAIN known_vm_manufacturers :
              ~Contains(get_smbios_manufacturer(snapshot.smbios).str,
                        known_vm_manufacturers[i])
    /\ Detected("Platform_HyperVIsolation") =>
         /\ ~Detected("Cpu_Hypervisor_bit")
         /\ ~Detected("Cpu_Hypervisor_signature")

\* a Hyper-V host of a hardware vendor: the isolation flag and no CPU flag
C20_Witness ==
  /\ VerdictReturned
  /\ snapshot.cpu.hypervisor_bit
  /\ snapshot.cpu.hypervisor_signature = microsoft_hyperv_sig
  /\ get_smbios_manufacturer(snapshot.smbios).str = <<68, 101, 108, 108>>
  /\ Detected("Platform_HyperVIsolation")
  /\ ~Detected("Cpu_Hypervisor_bit")

\* C21: a snapshot whose SMBIOS UUID is 16 zero bytes gets both
\* SMBIOS_SuspiciousUUID and SMBIOS_UUIDTotallyZeroed and the confidence
\* DefinitelyVM, whatever the CPU, manufacturer, adapters and drives are; a
\* UUID with a non-zero byte gets neither flag.
C21_ZeroUuidIsDefinitelyVM ==
  VerdictReturned =>
    IF \A i \in DOMAIN snapshot.smbios.uuid : snapshot.smbios.uuid[i] = 0
      THEN /\ Detected("SMBIOS_SuspiciousUUID")
           /\ Detected("SMBIOS_UUIDTotallyZeroed")
           /\ verdict.confidence = "DefinitelyVM"
      ELSE /\ ~Detected("SMBIOS_SuspiciousUUID")
           /\ ~Detected("SMBIOS_UUIDTotallyZeroed")

\* a zero UUID on a board with nothing else to detect: the two UUID flags
\* are the whole verdict
C21_Witness ==
  /\ VerdictReturned
  /\ snapshot.smbios.uuid = ZeroUuid
  /\ ~snapshot.cpu.hypervisor_bit
  /\ adapters_seen = [access_denied |-> FALSE, adapters |-> <<IntelAdapter>>]
  /\ verdict.detections = <<"SMBIOS_SuspiciousUUID", "SMBIOS_UUIDTotallyZeroed">>
  /\ verdict.confidence = "DefinitelyVM"

\* the snapshot is a Hyper-V-isolation host: hypervisor bit, signature
\* "Microsoft Hv", no known VM vendor in the manufacturer, UUID not all zero
HvciHost ==
  /\ snapshot.cpu.hypervisor_bit
  /\ snapshot.cpu.hypervisor_signature = microsoft_hyperv_sig
  /\ \A i \in DOMAIN known_vm_manufacturers :
       ~Contains(get_smbios_manufacturer(snapshot.smbios).str,
                 known_vm_manufacturers[i])
  /\ \E i \in DOMAIN snapshot.smbios.uuid : snapshot.smbios.uuid[i] # 0

\* C25: for a Hyper-V-isolation host the basic heuristic returns a
\* confidence of at most Possible and is_virtual() false, whatever
\* list_network_adapters reports (access denied included).
C25_HvciHostNotVirtual ==
  (VerdictReturned /\ vm_fn = "DefaultHeuristic" /\ HvciHost) =>
    /\ verdict.confidence \in {"Unlikely", "Possible"}
    /\ ~is_virtual(verdict)

\* a Hyper-V-isolation host all of whose adapters are virtual: one Medium
\* and two Weak flags, Possible
C25_Witness ==
  /\ VerdictReturned
  /\ vm_fn = "DefaultHeuristic"
  /\ HvciHost
  /\ adapters_seen.adapters = <<VirtioAdapter>>
  /\ verdict.detections = <<"Platform_HyperVIsolation",
                            "Platform_VirtualNetworkAdaptersPresent",
                            "Platform_OnlyVirtualNetworkAdapters">>
  /\ verdict.confidence = "Possible"

\* the description, lower-cased, contains one of the known virtual-adapter
\* substrings
MatchesKnownAdapter(adapter) ==
  \E k \in DOMAIN known_vm_network_adapters :
    Contains([i \in DOMAIN adapter.description |-> ctolower(adapter.description[i])],
             known_vm_network_adapters[k])

\* C26: when the enumeration is not denied, Platform_OnlyVirtualNetworkAdapters
\* is in the verdict exactly when some adapter matches a known virtual
\* adapter and every adapter that is neither loopback nor tunnel matches
\* one; with it Platform_VirtualNetworkAdaptersPresent is in the verdict
\* too, and a list with no virtual adapter gets neither.
C26_OnlyVirtualAdapters ==
  (VerdictReturned /\ ~adapters_seen.access_denied) =>
    LET a == adapters_seen.adapters
    IN  /\ Detected("Platform_OnlyVirtualNetworkAdapters") <=>
             /\ \E i \in DOMAIN a : MatchesKnownAdapter(a[i])
             /\ \A i \in DOMAIN a :
                  (~a[i].is_loopback /\ ~a[i].is_tunnel) => MatchesKnownAdapter(a[i])
        /\ Detected("Platform_OnlyVirtualNetworkAdapters") =>
             Detected("Platform_VirtualNetworkAdaptersPresent")
        /\ (\A i \in DOMAIN a : ~MatchesKnownAdapter(a[i])) =>
             /\ ~Detected("Platform_VirtualNetworkAdaptersPresent")
             /\ ~Detected("Platform_OnlyVirtualNetworkAdapters")

\* the only virtual adapter is a tunnel and the other adapter is the
\* loopback: both flags
C26_Witness ==
  /\ VerdictReturned
  /\ adapters_seen = [access_denied |-> FALSE,
                      adapters |-> <<TunnelVmnetAdapter, LoopbackAdapter>>]
  /\ Detected("Platform_VirtualNetworkAdaptersPresent")
  /\ Detected("Platform_OnlyVirtualNetworkAdapters")

(***************************************************************************)
(* Properties of repeated analysis of one snapshot                         *)
(***************************************************************************)
\* both calls on the snapshot have returned a verdict
BothReturned == VerdictReturned /\ earlier # <<>>

\* C22: the basic analysis of the Motherboard and the extended analysis of
\* the MotherboardEx with the same cpu and smbios, given the same network
\* adapters, agree on is_virtual(), whatever the drive list is.
C22_BasicAndExtendedAgree ==
  (/\ BothReturned
   /\ earlier[1].fn # vm_fn
   /\ earlier[1].seen = adapters_seen)
    => (is_virtual(earlier[1].verdict) <=> is_virtual(verdict))

\* C23: two calls of analyze_full with the same Motherboard return equal
\* detections and equal confidence, and the snapshot is what it was.
C23_AnalyzeFullIsPure ==
  (/\ BothReturned
   /\ earlier[1].fn = "DefaultHeuristic"
   /\ vm_fn = "DefaultHeuristic")
    => /\ earlier[1].verdict.detections = verdict.detections
       /\ earlier[1].verdict.confidence = verdict.confidence

(***************************************************************************)
(* CResourceHandle (Identy_resource_handle.hxx)                            *)
(*                                                                         *)
(* A pointer is the number of the buffer it points to, 0 for nullptr.  A   *)
(* buffer passed to the deallocator twice is undefined behaviour: nothing  *)
(* is said about what the program does after it.                           *)
(***************************************************************************)
MaxHandles == 3

MaxBuffers == 2

\* the sizes handed to allocate
AllocSizes == {8, 16}

\* CResourceHandle(): m_pointer(nullptr), m_size(0), m_was_moved { false }
CResourceHandle ==
  [life |-> "alive", m_pointer |-> 0, m_size |-> 0, m_was_moved |-> FALSE]

\* storage in which no handle was constructed yet
NoHandle == [CResourceHandle EXCEPT !.life = "none"]

\* "if(m_pointer) m_free(m_pointer)", as the new heap
m_free(hp, m_pointer) ==
  IF m_pointer # 0 THEN [hp EXCEPT ![m_pointer] = @ + 1] ELSE hp

\* no buffer was passed to the deallocator twice
NoDoubleFree == \A b \in DOMAIN heap : heap[b] <= 1

InitHandle ==
  /\ IdleSha
  /\ IdleSmbios
  /\ IdleFingerprint
  /\ IdleVm
  /\ IdleSysfs
  /\ handles = [h \in 1..MaxHandles |-> NoHandle]
  /\ heap = <<>>

\* CResourceHandle h;
Construct(h) ==
  /\ NoDoubleFree
  /\ handles[h].life = "none"
  /\ handles' = [handles EXCEPT ![h] = CResourceHandle]
  /\ UNCHANGED heap
  /\ UNCHANGED <<shaVars, smbiosVars, fpVars, vmVars, sysfsVars>>

\* h.allocate(size): m_alloc returns a new buffer, or CAlloc throws
\* std::bad_alloc after the old buffer was freed and before m_pointer is
\* assigned
Allocate(h, size) ==
  /\ NoDoubleFree
  /\ handles[h].life = "alive"
  /\ \/ /\ Len(heap) < MaxBuffers
        /\ heap' = Append(m_free(heap, handles[h].m_pointer), 0)
        /\ handles' = [handles EXCEPT ![h].m_pointer = Len(heap) + 1,
                                      ![h].m_size = size]
     \/ /\ heap' = m_free(heap, handles[h].m_pointer)
        /\ UNCHANGED handles
  /\ UNCHANGED <<shaVars, smbiosVars, fpVars, vmVars, sysfsVars>>

\* CResourceHandle h(std::move(other));
MoveConstruct(h, other) ==
  /\ NoDoubleFree
  /\ handles[h].life = "none"
  /\ handles[other].life = "alive"
  /\ handles' = [handles EXCEPT
                   ![h] = [CResourceHandle EXCEPT
                             !.m_pointer = handles[other].m_pointer,
                             !.m_size = handles[other].m_size],
                   ![other].m_was_moved = TRUE,
                   ![other].m_pointer = 0]
  /\ UNCHANGED heap
  /\ UNCHANGED <<shaVars, smbiosVars, fpVars, vmVars, sysfsVars>>

\* h = std::move(other);
MoveAssign(h, other) ==
  /\ NoDoubleFree
  /\ handles[h].life = "alive"
  /\ handles[other].life = "alive"
  /\ IF h # other
       THEN /\ heap' = m_free(heap, handles[h].m_pointer)
            /\ handles' = [handles EXCEPT
                             ![h].m_pointer = handles[other].m_pointer,
                             ![h].m_size = handles[other].m_size,
                             ![other].m_was_moved = TRUE,
                             ![other].m_pointer = 0]
       ELSE UNCHANGED <<handles, heap>>
  /\ UNCHANGED <<shaVars, smbiosVars, fpVars, vmVars, sysfsVars>>

\* ~CResourceHandle()
Destroy(h) ==
  /\ NoDoubleFree
  /\ handles[h].life = "alive"
  /\ heap' = (IF ~handles[h].m_was_moved
                THEN m_free(heap, handles[h].m_pointer)
                ELSE heap)
  /\ handles' = [handles EXCEPT ![h].life = "dead"]
  /\ UNCHANGED <<shaVars, smbiosVars, fpVars, vmVars, sysfsVars>>

NextHandle ==
  \E h \in 1..MaxHandles :
    \/ Construct(h)
    \/ \E size \in AllocSizes : Allocate(h, size)
    \/ \E other \in 1..MaxHandles : MoveConstruct(h, other)
    \/ \E other \in 1..MaxHandles : MoveAssign(h, other)
    \/ Destroy(h)

SpecHandle == InitHandle /\ [][NextHandle]_vars

HandleTypeOK ==
  \A h \in DOMAIN handles :
    /\ handles[h].m_pointer \in 0..Len(heap)
    /\ handles[h].m_size \in AllocSizes \cup {0}

(***************************************************************************)
(* Properties of CResourceHandle                                           *)
(***************************************************************************)
\* every handle constructed so far has been destroyed
AllDestroyed == \A h \in DOMAIN handles : handles[h].life # "alive"

\* C27: whatever allocate, move construction, move assignment and
\* destruction were called, no buffer obtained from the allocator is passed
\* to the deallocator twice, and once all handles are destroyed every buffer
\* was passed to it exactly once.
C27_EachBufferFreedOnce ==
  /\ \A b \in DOMAIN heap : heap[b] <= 1
  /\ AllDestroyed => \A b \in DOMAIN heap : heap[b] = 1


(***************************************************************************)
(* get_smbios_uuid_sysfs (Platform/Identy_hwid_pltimpl_linux.cxx)          *)
(*                                                                         *)
(* A text is a sequence of character codes; element i + 1 is uuid_str[i].  *)
(***************************************************************************)
\* the value of a hexadecimal digit, -1 for any other character
HexValue(c) ==
  IF c >= 48 /\ c <= 57 THEN c - 48
  ELSE IF c >= 97 /\ c <= 102 THEN c - 87
  ELSE IF c >= 65 /\ c <= 70 THEN c - 55
  ELSE 0 - 1

\* std::from_chars(byte_hex, byte_hex + 2, value, 16) for byte_hex = {c1, c2}:
\* the longest run of digits at the start is converted; no digit is an error
from_chars(c1, c2) ==
  IF HexValue(c1) < 0 THEN [ok |-> FALSE, value |-> 0]
  ELSE IF HexValue(c2) < 0 THEN [ok |-> TRUE, value |-> HexValue(c1)]
  ELSE [ok |-> TRUE, value |-> 16 * HexValue(c1) + HexValue(c2)]

\* std::nullopt
nullopt == [has_value |-> FALSE, uuid |-> <<>>]

\* the for loop from index i on, uuid holding the byte_index bytes written,
\* and the statements after the loop
RECURSIVE get_smbios_uuid_sysfs_from(_, _, _)
get_smbios_uuid_sysfs_from(text, i, uuid) ==
  LET after_loop == IF Len(uuid) # 16
                      THEN nullopt
                      ELSE [has_value |-> TRUE, uuid |-> uuid]
  IN  IF ~(i < Len(text) /\ Len(uuid) < 16) THEN after_loop
      \* "if(uuid_str[i] == '-') continue;"
      ELSE IF text[i + 1] = 45 THEN get_smbios_uuid_sysfs_from(text, i + 1, uuid)
      \* "if(i + 1 >= uuid_str.size()) break;"
      ELSE IF i + 1 >= Len(text) THEN after_loop
      \* the byte is stored when from_chars succeeds; the block that follows
      \* the if statement has no else before it and returns in either case
      ELSE With(from_chars(text[i + 1], text[i + 2]), LAMBDA parsed :
             With(IF parsed.ok THEN Append(uuid, parsed.value) ELSE uuid,
                  LAMBDA stored : nullopt))

\* get_smbios_uuid_sysfs
get_smbios_uuid_sysfs(text) ==
  IF Len(text) < 32 THEN nullopt ELSE get_smbios_uuid_sysfs_from(text, 0, <<>>)

\* "00112233445566778899aabbccddeeff" and "F81D4FAE7DEC11D0A76500A0C91E6BF6"
UuidDigits ==
  { <<48, 48, 49, 49, 50, 50, 51, 51, 52, 52, 53, 53, 54, 54, 55, 55,
      56, 56, 57, 57, 97, 97, 98, 98, 99, 99, 100, 100, 101, 101, 102, 102>>,
    <<70, 56, 49, 68, 52, 70, 65, 69, 55, 68, 69, 67, 49, 49, 68, 48,
      65, 55, 54, 53, 48, 48, 65, 48, 67, 57, 49, 69, 54, 66, 70, 54>> }

\* the digits as product_uuid shows them: 8-4-4-4-12
WithDashes(d) ==
  SubSeq(d, 1, 8) \o <<45>> \o SubSeq(d, 9, 12) \o <<45>> \o SubSeq(d, 13, 16)
    \o <<45>> \o SubSeq(d, 17, 20) \o <<45>> \o SubSeq(d, 21, 32)

\* the texts read from product_uuid: whole, with and without dashes; cut
\* short at any place; with one character replaced by 'g'
UuidTexts ==
  LET whole == UuidDigits \cup {WithDashes(d) : d \in UuidDigits}
  IN  whole
        \cup UNION {{SubSeq(s, 1, n) : n \in 0..(Len(s) - 1)} : s \in whole}
        \cup UNION {{[s EXCEPT ![k] = 103] : k \in 1..Len(s)} : s \in whole}

InitSysfs ==
  /\ IdleSha
  /\ IdleSmbios
  /\ IdleFingerprint
  /\ IdleVm
  /\ IdleHandle
  /\ uuid_str \in UuidTexts
  /\ fallback_uid = <<>>
  /\ sysfs_pc = "call"

\* try_read_sysfs_uuid: result.fallback_uid = get_smbios_uuid_sysfs(trimmed);
\* the text read by operator>> holds no white space, so trimming leaves it
TryReadSysfsUuid ==
  /\ sysfs_pc = "call"
  /\ fallback_uid' = get_smbios_uuid_sysfs(uuid_str)
  /\ sysfs_pc' = "return"
  /\ UNCHANGED uuid_str
  /\ UNCHANGED <<shaVars, smbiosVars, fpVars, vmVars, rhVars>>

NextSysfs == TryReadSysfsUuid

SpecSysfs == InitSysfs /\ [][NextSysfs]_vars

(***************************************************************************)
(* Properties of get_smbios_uuid_sysfs                                     *)
(***************************************************************************)
\* the characters of a text that are not '-', in order
RECURSIVE WithoutDashes(_)
WithoutDashes(text) ==
  IF text = <<>> THEN <<>>
  ELSE IF Head(text) = 45 THEN WithoutDashes(Tail(text))
  ELSE <<Head(text)>> \o WithoutDashes(Tail(text))

\* C30: for a text of 32 hexadecimal digits, with or without '-'
\* separators, get_smbios_uuid_sysfs returns the 16 bytes the digits encode
\* in order; for a text shorter than 32 characters, with a pair that is not
\* hexadecimal or with fewer than 16 bytes it returns no value.
C30_SysfsUuidDecoded ==
  sysfs_pc = "return" =>
    LET digits == WithoutDashes(uuid_str)
        hex    == \A k \in DOMAIN digits : HexValue(digits[k]) >= 0
    IN  /\ (hex /\ Len(digits) = 32) =>
             /\ fallback_uid.has_value
             /\ fallback_uid.uuid =
                  [k \in 1..16 |-> 16 * HexValue(digits[2 * k - 1])
                                     + HexValue(digits[2 * k])]
        /\ (Len(uuid_str) < 32 \/ ~hex \/ Len(digits) < 32) =>
             ~fallback_uid.has_value


====
